---- MODULE Spec2Model ----
(***************************************************************************)
(* Model of the usbd-fs-stm32 device core (src/src/usbd.c).                *)
(*                                                                         *)
(* 16-bit peripheral registers are modelled as the set of the positions    *)
(* of their 1 bits (bit 0 = least significant), so that the C operators    *)
(* ^, &, | and ~ are symmetric difference, intersection, union and         *)
(* complement, exactly as usbd.c combines the CMSIS masks.  The values of  *)
(* the CMSIS masks are those of the STM32F0/G4 device headers.             *)
(*                                                                         *)
(* usbd_task is one atomic action; the USB peripheral and the host are the *)
(* environment (Host* and Bus* actions).                                   *)
(***************************************************************************)
EXTENDS Integers, Sequences, FiniteSets, TLC

VARIABLES
    state,          \* usbd.c:297  STATE_DEFAULT / STATE_ADDRESS / STATE_CONFIGURED
    set_address,    \* usbd.c:303  pending-address flag
    address,        \* usbd.c:304  pending / current address
    DADDR,          \* USB->DADDR
    ISTR,           \* USB->ISTR flags WKUP, SUSP, RESET, SOF (CTR and EP_ID are derived)
    CNTR,           \* USB->CNTR
    EPnR,           \* USB->EP0R .. USB->EP7R
    ctrl_in_buf,    \* usbd.c:227  continuation pointer: NULL or <<buffer, offset>>
    ctrl_in_buflen, \* usbd.c:228  continuation remaining length
    current_ep,     \* usbd.c:630  SOF round-robin cursor
    pma_tx,         \* PMA IN slots: per endpoint the armed count and the source of its bytes
    pma_rx,         \* PMA OUT descriptors: per endpoint the count word
    ep0_out,        \* the first 8 bytes of the EP0 OUT slot, read as a request
    config,         \* usbd.c:28-69  the build's USBD_EPn_IN_SIZE / USBD_EPn_OUT_SIZE macros
    btable,         \* the addr fields of the buffer-descriptor table at USB_PMAADDR
    halt,           \* history: the last accepted ENDPOINT_HALT request per endpoint direction
    reply,          \* history: the last SETUP dispatched and the EP0 IN packets armed for it
    waiting,        \* history: per endpoint, the processed SOF events it stayed ready through
    pc,             \* the point where a call of usbd_task stands while the peripheral acts: NULL between calls
    last            \* history: what the step just taken did (callbacks invoked, events handled)

vars == <<state, set_address, address, DADDR, ISTR, CNTR, EPnR, ctrl_in_buf,
          ctrl_in_buflen, current_ep, pma_tx, pma_rx, ep0_out, config, btable, halt,
          reply, waiting, pc, last>>

\* What no bus event changes.
aux == <<config, btable, halt, reply, waiting, pc>>

----------------------------------------------------------------------------
(* Bit-set arithmetic on 16-bit words *)

Word == 0..15

Xor(a, b) == (a \ b) \cup (b \ a)

Not(a) == Word \ a

RECURSIVE Pow2(_)
Pow2(n) == IF n = 0 THEN 1 ELSE 2 * Pow2(n - 1)

Bits(n) == {b \in Word : (n \div Pow2(b)) % 2 = 1}

RECURSIVE FromBits(_)
FromBits(s) == IF s = {} THEN 0
               ELSE LET b == CHOOSE x \in s : TRUE IN Pow2(b) + FromBits(s \ {b})

NULL == <<>>

----------------------------------------------------------------------------
(* CMSIS register masks used by usbd.c *)

USB_EP_CTR_RX    == {15}
USB_EP_DTOG_RX   == {14}
USB_EPRX_STAT    == {12, 13}
USB_EP_SETUP     == {11}
USB_EP_T_FIELD   == {9, 10}
USB_EP_KIND      == {8}
USB_EP_CTR_TX    == {7}
USB_EP_DTOG_TX   == {6}
USB_EPTX_STAT    == {4, 5}
USB_EPADDR_FIELD == {0, 1, 2, 3}

USB_EPREG_MASK == USB_EP_CTR_RX \cup USB_EP_SETUP \cup USB_EP_T_FIELD \cup USB_EP_KIND
                  \cup USB_EP_CTR_TX \cup USB_EPADDR_FIELD

USB_EP_TX_DIS   == {}
USB_EP_TX_STALL == {4}
USB_EP_TX_NAK   == {5}
USB_EP_TX_VALID == {4, 5}
USB_EP_RX_DIS   == {}
USB_EP_RX_STALL == {12}
USB_EP_RX_NAK   == {13}
USB_EP_RX_VALID == {12, 13}

USB_EP_BULK      == {}
USB_EP_CONTROL   == {9}
USB_EP_INTERRUPT == {9, 10}

USB_ISTR_CTR   == {15}
USB_ISTR_WKUP  == {12}
USB_ISTR_SUSP  == {11}
USB_ISTR_RESET == {10}
USB_ISTR_SOF   == {9}

USB_CNTR_FSUSP == {3}

USB_DADDR_EF  == {7}
USB_DADDR_ADD == {0, 1, 2, 3, 4, 5, 6}

USBD_EP0_SIZE == 64

----------------------------------------------------------------------------
(* Peripheral semantics of a CPU write to a register *)

\* EPnR: type, kind and address are read/write; STAT and DTOG bits toggle when
\* written 1; CTR bits are cleared when written 0; SETUP is read-only.
HwWriteEPnR(old, w) ==
    (w \cap (USB_EP_T_FIELD \cup USB_EP_KIND \cup USB_EPADDR_FIELD))
    \cup (Xor(old, w) \cap (USB_EPRX_STAT \cup USB_EP_DTOG_RX \cup USB_EPTX_STAT \cup USB_EP_DTOG_TX))
    \cup (old \cap w \cap (USB_EP_CTR_RX \cup USB_EP_CTR_TX))
    \cup (old \cap USB_EP_SETUP)

\* ISTR: the event flags are cleared when written 0 and unaffected when written 1.
HwWriteISTR(old, w) == old \cap w

\* The endpoints with a pending correct-transfer flag, and the ISTR value read
\* by the CPU: CTR is the OR of the endpoints' CTR flags.
CtrPending(epr) == {i \in 0..7 : epr[i] \cap (USB_EP_CTR_RX \cup USB_EP_CTR_TX) # {}}

ReadISTR(flags, epr) == flags \cup (IF CtrPending(epr) # {} THEN USB_ISTR_CTR ELSE {})

\* ISTR.EP_ID: the lowest-numbered endpoint with a pending CTR flag.
ReadEP_ID(epr) ==
    IF CtrPending(epr) = {} THEN 0
    ELSE CHOOSE i \in CtrPending(epr) : \A j \in CtrPending(epr) : i <= j

----------------------------------------------------------------------------
(* Build-time endpoint table and the application's descriptors.  A pointer
   is NULL or a one-element tuple holding the object it points to. *)

\* endpoints[]: EP0 is the control endpoint; the build configures EP1 as an
\* 8-byte interrupt IN endpoint and EP2 as a 64-byte bulk OUT endpoint.
endpoints ==
    [i \in 0..7 |->
        IF i = 0 THEN [type |-> USB_EP_CONTROL, size_in |-> USBD_EP0_SIZE, size_out |-> USBD_EP0_SIZE]
        ELSE IF i = 1 THEN [type |-> USB_EP_INTERRUPT, size_in |-> 8, size_out |-> 0]
        ELSE IF i = 2 THEN [type |-> USB_EP_BULK, size_in |-> 0, size_out |-> 64]
        ELSE [type |-> USB_EP_BULK, size_in |-> 0, size_out |-> 0]]

\* The descriptors returned by the required callbacks of the application.
usbd_get_device_descriptor_cb == <<[bLength |-> 18]>>

usbd_get_config_descriptor_cb ==
    <<[bConfigurationValue |-> 1, wTotalLength |-> 150, self_powered |-> TRUE]>>

usbd_get_interface_descriptor_cb(itf) ==
    IF itf = 0 THEN <<[bAlternateSetting |-> 0]>> ELSE NULL

usbd_get_string_descriptor_cb(lang, idx) ==
    IF idx = 0 THEN <<[bLength |-> 4]>> ELSE NULL

\* Which of the weak (optional) callbacks the application defines.
usbd_in_cb_defined == TRUE
usbd_out_cb_defined == TRUE
usbd_reset_hook_cb_defined == TRUE
usbd_set_address_hook_cb_defined == TRUE
usbd_suspend_hook_cb_defined == TRUE
usbd_resume_hook_cb_defined == TRUE
usbd_ctrl_request_handle_class_cb_defined == FALSE
usbd_ctrl_request_handle_vendor_cb_defined == TRUE
usbd_ctrl_request_get_descriptor_interface_cb_defined == FALSE

----------------------------------------------------------------------------
(* PMA layout *)

Min(a, b) == IF a < b THEN a ELSE b

\* mem_addr - USB_PMAADDR at the start of iteration i of pma_init's loop, for
\* an endpoints[] array ep.
RECURSIVE MemAddrOf(_, _)
MemAddrOf(ep, i) ==
    IF i = 0 THEN 16 * 4
    ELSE MemAddrOf(ep, i - 1) + ep[i - 1].size_in + ep[i - 1].size_out

MemAddr(i) == MemAddrOf(endpoints, i)

USB_COUNT0_RX_BLSIZE == {15}
USB_COUNT1_RX_0_COUNT1_RX_0 == {0, 1, 2, 3, 4, 5, 6, 7, 8, 9}

\* The buffer-descriptor table pma_init writes for an endpoints[] array ep.
PmaTable(ep) ==
    [i \in 0..7 |->
        [in_addr  |-> MemAddrOf(ep, i),
         in_cnt   |-> 0,
         out_addr |-> MemAddrOf(ep, i) + ep[i].size_in,
         out_cnt  |-> IF ep[i].size_out > 62
                      THEN USB_COUNT0_RX_BLSIZE \cup (Bits(ep[i].size_out \div 64) \cap Bits(31))
                      ELSE Bits(ep[i].size_out \div 2) \cap Bits(31)]]

\* The buffer-descriptor table written by pma_init.
pma_init == PmaTable(endpoints)

----------------------------------------------------------------------------
(* Endpoint I/O.  m is the machine state as a record. *)

Log(m, e) == [m EXCEPT !.log = Append(@, e)]

\* The value usbd_in returns.
usbd_in_rv(ept) ==
    IF ept >= 8 THEN FALSE
    ELSE IF pma_init[ept].in_addr = 0 THEN FALSE
    ELSE TRUE

\* usbd_in writing 0 to the CTR flags instead of 1.
usbd_inClearsCtr(m, ept, src, buflen) ==
    IF ept >= 8 THEN m
    ELSE IF pma_init[ept].in_addr = 0 THEN m
    ELSE [m EXCEPT
            !.pma_tx[ept] = [cnt |-> buflen, src |-> src],
            !.epr[ept] = HwWriteEPnR(@, Xor(@, USB_EP_TX_VALID)
                            \cap ((USB_EPREG_MASK \ (USB_EP_CTR_RX \cup USB_EP_CTR_TX)) \cup USB_EPTX_STAT))]

\* usbd_in writing USB_EP_TX_VALID without the exclusive or with the register.
usbd_inNoXor(m, ept, src, buflen) ==
    IF ept >= 8 THEN m
    ELSE IF pma_init[ept].in_addr = 0 THEN m
    ELSE [m EXCEPT
            !.pma_tx[ept] = [cnt |-> buflen, src |-> src],
            !.epr[ept] = HwWriteEPnR(@, (@ \cap USB_EPREG_MASK) \cup USB_EP_TX_VALID)]

usbd_in(m, ept, src, buflen) ==
    IF ept >= 8 THEN m
    ELSE IF pma_init[ept].in_addr = 0 THEN m
    ELSE [m EXCEPT
            !.pma_tx[ept] = [cnt |-> buflen, src |-> src],
            !.epr[ept] = HwWriteEPnR(@, Xor(@, USB_EP_TX_VALID) \cap (USB_EPREG_MASK \cup USB_EPTX_STAT))]

\* usbd_out_rv without the clamp to buflen.
usbd_out_rvNoClamp(m, ept, buflen) ==
    IF ept >= 8 THEN 0
    ELSE IF pma_init[ept].out_addr = 0 THEN 0
    ELSE FromBits(m.pma_rx[ept] \cap USB_COUNT1_RX_0_COUNT1_RX_0)

\* The value usbd_out returns.
usbd_out_rv(m, ept, buflen) ==
    IF ept >= 8 THEN 0
    ELSE IF pma_init[ept].out_addr = 0 THEN 0
    ELSE Min(FromBits(m.pma_rx[ept] \cap USB_COUNT1_RX_0_COUNT1_RX_0), buflen)

usbd_out(m, ept, buflen) ==
    IF ept >= 8 THEN m
    ELSE IF pma_init[ept].out_addr = 0 THEN m
    ELSE [m EXCEPT
            !.epr[ept] = HwWriteEPnR(@, Xor(@, USB_EP_RX_VALID) \cap (USB_EPREG_MASK \cup USB_EPRX_STAT))]

usbd_control_in(m, buf, buflen, reqlen) ==
    LET total == IF reqlen < buflen THEN reqlen ELSE buflen
        l     == IF total > USBD_EP0_SIZE THEN USBD_EP0_SIZE ELSE total
        m1    == usbd_in(m, 0, IF buf = NULL THEN NULL ELSE <<buf, 0>>, l)
    IN  [m1 EXCEPT
            !.ctrl_in_buf    = IF total > USBD_EP0_SIZE THEN <<buf, USBD_EP0_SIZE>> ELSE NULL,
            !.ctrl_in_buflen = IF total > USBD_EP0_SIZE THEN total - USBD_EP0_SIZE ELSE 0]

\* The value usbd_control_in_resume returns.
usbd_control_in_resume_rv(m) == m.ctrl_in_buf # NULL

\* usbd_control_in_resume continuing while ctrl_in_buflen >= USBD_EP0_SIZE.
usbd_control_in_resumeGe(m) ==
    IF m.ctrl_in_buf = NULL THEN m
    ELSE
        LET l  == IF m.ctrl_in_buflen > USBD_EP0_SIZE THEN USBD_EP0_SIZE ELSE m.ctrl_in_buflen
            m1 == usbd_in(m, 0, m.ctrl_in_buf, l)
        IN  [m1 EXCEPT
                !.ctrl_in_buf    = IF m.ctrl_in_buflen >= USBD_EP0_SIZE
                                   THEN <<m.ctrl_in_buf[1], m.ctrl_in_buf[2] + USBD_EP0_SIZE>>
                                   ELSE NULL,
                !.ctrl_in_buflen = IF m.ctrl_in_buflen >= USBD_EP0_SIZE
                                   THEN m.ctrl_in_buflen - USBD_EP0_SIZE ELSE 0]

usbd_control_in_resume(m) ==
    IF m.ctrl_in_buf = NULL THEN m
    ELSE
        LET l  == IF m.ctrl_in_buflen > USBD_EP0_SIZE THEN USBD_EP0_SIZE ELSE m.ctrl_in_buflen
            m1 == usbd_in(m, 0, m.ctrl_in_buf, l)
        IN  [m1 EXCEPT
                !.ctrl_in_buf    = IF m.ctrl_in_buflen > USBD_EP0_SIZE
                                   THEN <<m.ctrl_in_buf[1], m.ctrl_in_buf[2] + USBD_EP0_SIZE>>
                                   ELSE NULL,
                !.ctrl_in_buflen = IF m.ctrl_in_buflen > USBD_EP0_SIZE
                                   THEN m.ctrl_in_buflen - USBD_EP0_SIZE ELSE 0]

get_config_bConfigurationValue ==
    IF usbd_get_config_descriptor_cb = NULL THEN 0
    ELSE usbd_get_config_descriptor_cb[1].bConfigurationValue


----------------------------------------------------------------------------
(* Control engine *)

\* Values of usb-std.h used by handle_ctrl_setup.
USB_FEAT_ENDPOINT_HALT       == 0
USB_DESCR_TYPE_DEVICE        == 1
USB_DESCR_TYPE_CONFIGURATION == 2
USB_DESCR_TYPE_STRING        == 3

\* req->wIndex & USB_DESCR_EPT_ADDR_DIR_IN
EptDirIn(wIndex) == (wIndex \div 128) % 2 = 1

R(m, rv) == [m |-> m, rv |-> rv]

\* An application request callback (class, vendor, interface descriptor): it
\* rejects the request, accepts it without data, or replies with a 4-byte buffer.
AppRequestCb(m, req, app, name) ==
    LET m1 == Log(m, <<name, 0>>)
    IN  IF app.request = "reject" THEN R(m1, FALSE)
        ELSE IF app.request = "reply" /\ req.dir = "D2H"
             THEN R(usbd_control_in(m1, <<"app", 0>>, 4, req.wLength), TRUE)
        ELSE R(m1, TRUE)

\* GetStatus serving the Interface recipient before the test of the device state.
GetStatusInterfaceAnyState(m, req) ==
    IF req.dir = "H2D" THEN R(m, FALSE)
    ELSE IF req.rcpt = "INTERFACE" THEN
        IF usbd_get_interface_descriptor_cb(req.wIndex) = NULL THEN R(m, FALSE)
        ELSE R(usbd_control_in(m, <<"status", 0>>, 2, req.wLength), TRUE)
    ELSE IF m.state # "CONFIGURED" THEN R(m, FALSE)
    ELSE IF req.rcpt = "DEVICE" THEN
        LET cfg == usbd_get_config_descriptor_cb
        IN  R(usbd_control_in(m, IF cfg # NULL /\ cfg[1].self_powered THEN <<"status", 1>> ELSE <<"status", 0>>,
                              2, req.wLength), TRUE)
    ELSE IF req.rcpt = "ENDPOINT" THEN
        LET ept == req.wIndex % 8
        IN  IF EptDirIn(req.wIndex) THEN
                IF endpoints[ept].size_in = 0 THEN R(m, FALSE)
                ELSE R(usbd_control_in(m,
                        IF m.epr[ept] \cap USB_EPTX_STAT = USB_EP_TX_STALL THEN <<"status", 1>> ELSE <<"status", 0>>,
                        2, req.wLength), TRUE)
            ELSE
                IF endpoints[ept].size_out = 0 THEN R(m, FALSE)
                ELSE R(usbd_control_in(m,
                        IF m.epr[ept] \cap USB_EPRX_STAT = USB_EP_RX_STALL THEN <<"status", 1>> ELSE <<"status", 0>>,
                        2, req.wLength), TRUE)
    ELSE R(usbd_control_in(m, <<"status", 0>>, 2, req.wLength), TRUE)

GetStatus(m, req) ==
    IF req.dir = "H2D" \/ m.state # "CONFIGURED" THEN R(m, FALSE)
    ELSE IF req.rcpt = "DEVICE" THEN
        LET cfg == usbd_get_config_descriptor_cb
        IN  R(usbd_control_in(m, IF cfg # NULL /\ cfg[1].self_powered THEN <<"status", 1>> ELSE <<"status", 0>>,
                              2, req.wLength), TRUE)
    ELSE IF req.rcpt = "INTERFACE" THEN
        IF usbd_get_interface_descriptor_cb(req.wIndex) = NULL THEN R(m, FALSE)
        ELSE R(usbd_control_in(m, <<"status", 0>>, 2, req.wLength), TRUE)
    ELSE IF req.rcpt = "ENDPOINT" THEN
        LET ept == req.wIndex % 8
        IN  IF EptDirIn(req.wIndex) THEN
                IF endpoints[ept].size_in = 0 THEN R(m, FALSE)
                ELSE R(usbd_control_in(m,
                        IF m.epr[ept] \cap USB_EPTX_STAT = USB_EP_TX_STALL THEN <<"status", 1>> ELSE <<"status", 0>>,
                        2, req.wLength), TRUE)
            ELSE
                IF endpoints[ept].size_out = 0 THEN R(m, FALSE)
                ELSE R(usbd_control_in(m,
                        IF m.epr[ept] \cap USB_EPRX_STAT = USB_EP_RX_STALL THEN <<"status", 1>> ELSE <<"status", 0>>,
                        2, req.wLength), TRUE)
    ELSE R(usbd_control_in(m, <<"status", 0>>, 2, req.wLength), TRUE)

\* ClearFeature without the test of the device state.
ClearFeatureAnyState(m, req) ==
    IF req.dir = "D2H" \/ req.rcpt # "ENDPOINT" \/ req.wValue # USB_FEAT_ENDPOINT_HALT
    THEN R(m, FALSE)
    ELSE
        LET ept == req.wIndex % 8
        IN  IF endpoints[ept].type # USB_EP_BULK /\ endpoints[ept].type # USB_EP_INTERRUPT
            THEN R(m, FALSE)
            ELSE IF EptDirIn(req.wIndex) THEN
                IF endpoints[ept].size_in # 0
                THEN R([m EXCEPT !.epr[ept] = HwWriteEPnR(@, Xor(@, USB_EP_TX_NAK)
                            \cap (USB_EPREG_MASK \cup USB_EPTX_STAT \cup USB_EP_DTOG_TX))], TRUE)
                ELSE R(m, FALSE)
            ELSE IF endpoints[ept].size_out # 0
                THEN R([m EXCEPT !.epr[ept] = HwWriteEPnR(@, Xor(@, USB_EP_RX_VALID)
                            \cap (USB_EPREG_MASK \cup USB_EPRX_STAT \cup USB_EP_DTOG_RX))], TRUE)
            ELSE R(m, FALSE)

ClearFeature(m, req) ==
    IF req.dir = "D2H" \/ req.rcpt # "ENDPOINT" \/ req.wValue # USB_FEAT_ENDPOINT_HALT
       \/ m.state # "CONFIGURED" THEN R(m, FALSE)
    ELSE
        LET ept == req.wIndex % 8
        IN  IF endpoints[ept].type # USB_EP_BULK /\ endpoints[ept].type # USB_EP_INTERRUPT
            THEN R(m, FALSE)
            ELSE IF EptDirIn(req.wIndex) THEN
                IF endpoints[ept].size_in # 0
                THEN R([m EXCEPT !.epr[ept] = HwWriteEPnR(@, Xor(@, USB_EP_TX_NAK)
                            \cap (USB_EPREG_MASK \cup USB_EPTX_STAT \cup USB_EP_DTOG_TX))], TRUE)
                ELSE R(m, FALSE)
            ELSE IF endpoints[ept].size_out # 0
                THEN R([m EXCEPT !.epr[ept] = HwWriteEPnR(@, Xor(@, USB_EP_RX_VALID)
                            \cap (USB_EPREG_MASK \cup USB_EPRX_STAT \cup USB_EP_DTOG_RX))], TRUE)
            ELSE R(m, FALSE)

SetFeature(m, req) ==
    IF req.dir = "D2H" \/ req.rcpt # "ENDPOINT" \/ req.wValue # USB_FEAT_ENDPOINT_HALT
       \/ m.state # "CONFIGURED" THEN R(m, FALSE)
    ELSE
        LET ept == req.wIndex % 8
        IN  IF endpoints[ept].type # USB_EP_BULK /\ endpoints[ept].type # USB_EP_INTERRUPT
            THEN R(m, FALSE)
            ELSE IF EptDirIn(req.wIndex) THEN
                IF endpoints[ept].size_in # 0
                THEN R([m EXCEPT !.epr[ept] = HwWriteEPnR(@, Xor(@, USB_EP_TX_STALL)
                            \cap (USB_EPREG_MASK \cup USB_EPTX_STAT))], TRUE)
                ELSE R(m, FALSE)
            ELSE IF endpoints[ept].size_out # 0
                THEN R([m EXCEPT !.epr[ept] = HwWriteEPnR(@, Xor(@, USB_EP_RX_STALL)
                            \cap (USB_EPREG_MASK \cup USB_EPRX_STAT))], TRUE)
            ELSE R(m, FALSE)

\* SetAddressLatches with the Configured state latching like the Address state.
SetAddressLatchesAlways(st, wValue) ==
    (st = "DEFAULT" /\ wValue # 0) \/ st = "ADDRESS" \/ st = "CONFIGURED"

\* case STATE_DEFAULT with wValue # 0 (fall through) and case STATE_ADDRESS
\* latch the address; case STATE_CONFIGURED does nothing.
SetAddressLatches(st, wValue) ==
    (st = "DEFAULT" /\ wValue # 0) \/ st = "ADDRESS"

\* SetAddress writing the device-address register at once instead of latching.
SetAddressImmediate(m, req) ==
    IF req.dir = "D2H" \/ req.rcpt # "DEVICE" THEN R(m, FALSE)
    ELSE IF SetAddressLatches(m.state, req.wValue) THEN
        LET a  == FromBits(Bits(req.wValue) \cap USB_DADDR_ADD)
            m1 == [m EXCEPT !.address = a, !.set_address = TRUE,
                            !.daddr = USB_DADDR_EF \cup Bits(a)]
        IN  R(IF usbd_set_address_hook_cb_defined THEN Log(m1, <<"set_address_hook_cb", a>>) ELSE m1,
              TRUE)
    ELSE R(m, TRUE)

\* SetAddress without the test of the direction bit.
SetAddressAnyDir(m, req) ==
    IF req.rcpt # "DEVICE" THEN R(m, FALSE)
    ELSE IF SetAddressLatches(m.state, req.wValue) THEN
        LET a  == FromBits(Bits(req.wValue) \cap USB_DADDR_ADD)
            m1 == [m EXCEPT !.address = a, !.set_address = TRUE]
        IN  R(IF usbd_set_address_hook_cb_defined THEN Log(m1, <<"set_address_hook_cb", a>>) ELSE m1,
              TRUE)
    ELSE R(m, TRUE)

SetAddress(m, req) ==
    IF req.dir = "D2H" \/ req.rcpt # "DEVICE" THEN R(m, FALSE)
    ELSE IF SetAddressLatches(m.state, req.wValue) THEN
        LET a  == FromBits(Bits(req.wValue) \cap USB_DADDR_ADD)
            m1 == [m EXCEPT !.address = a, !.set_address = TRUE]
        IN  R(IF usbd_set_address_hook_cb_defined THEN Log(m1, <<"set_address_hook_cb", a>>) ELSE m1,
              TRUE)
    ELSE R(m, TRUE)

GetDescriptor(m, req, app) ==
    IF req.dir = "H2D" THEN R(m, FALSE)
    ELSE IF req.rcpt = "DEVICE" THEN
        IF req.wValue \div 256 = USB_DESCR_TYPE_DEVICE THEN
            LET dev == usbd_get_device_descriptor_cb
            IN  IF dev = NULL THEN R(m, FALSE)
                ELSE R(usbd_control_in(m, <<"device", 0>>, dev[1].bLength, req.wLength), TRUE)
        ELSE IF req.wValue \div 256 = USB_DESCR_TYPE_CONFIGURATION THEN
            LET cfg == usbd_get_config_descriptor_cb
            IN  IF cfg = NULL THEN R(m, FALSE)
                ELSE R(usbd_control_in(m, <<"config", 0>>, cfg[1].wTotalLength, req.wLength), TRUE)
        ELSE IF req.wValue \div 256 = USB_DESCR_TYPE_STRING THEN
            LET str == usbd_get_string_descriptor_cb(req.wIndex, req.wValue % 256)
            IN  IF str = NULL THEN R(m, FALSE)
                ELSE R(usbd_control_in(m, <<"string", req.wValue % 256>>, str[1].bLength, req.wLength), TRUE)
        ELSE R(m, FALSE)
    ELSE IF req.rcpt = "INTERFACE" THEN
        IF usbd_ctrl_request_get_descriptor_interface_cb_defined
        THEN AppRequestCb(m, req, app, "get_descriptor_interface_cb")
        ELSE R(m, FALSE)
    ELSE R(m, FALSE)

GetConfiguration(m, req) ==
    IF req.dir = "H2D" \/ req.rcpt # "DEVICE" THEN R(m, FALSE)
    ELSE R(usbd_control_in(m,
              IF m.state = "CONFIGURED" THEN <<"config_value", get_config_bConfigurationValue>>
              ELSE <<"config_value", 0>>,
              1, req.wLength), TRUE)

\* ConfigureEndpoint without the zeroing write, the toggle bits written as they read.
ConfigureEndpointNoZero(epr, i) ==
    IF endpoints[i].size_in = 0 /\ endpoints[i].size_out = 0 THEN epr
    ELSE
        LET keep == USB_EPRX_STAT \cup USB_EP_DTOG_RX \cup USB_EPTX_STAT \cup USB_EP_DTOG_TX
            e2 == HwWriteEPnR(epr, (epr \ keep) \cup endpoints[i].type \cup Bits(i))
            e3 == IF endpoints[i].size_in # 0
                  THEN HwWriteEPnR(e2, (e2 \ keep) \cup USB_EP_TX_NAK)
                  ELSE e2
            e4 == IF endpoints[i].size_out # 0
                  THEN HwWriteEPnR(e3, (e3 \ keep) \cup USB_EP_RX_VALID)
                  ELSE e3
        IN  e4

\* ConfigureEndpoint with USB_EPTX_STAT missing from the mask of the IN write.
ConfigureEndpointNoTxStat(epr, i) ==
    IF endpoints[i].size_in = 0 /\ endpoints[i].size_out = 0 THEN epr
    ELSE
        LET e1 == HwWriteEPnR(epr, epr \cap Not(USB_EPREG_MASK))
            e2 == HwWriteEPnR(e1, e1 \cup endpoints[i].type \cup Bits(i))
            e3 == IF endpoints[i].size_in # 0
                  THEN HwWriteEPnR(e2, Xor(e2, USB_EP_TX_NAK)
                           \cap (USB_EPREG_MASK \cup USB_EP_DTOG_TX))
                  ELSE e2
            e4 == IF endpoints[i].size_out # 0
                  THEN HwWriteEPnR(e3, Xor(e3, USB_EP_RX_VALID)
                           \cap (USB_EPREG_MASK \cup USB_EPRX_STAT \cup USB_EP_DTOG_RX))
                  ELSE e3
        IN  e4

\* The loop body of SET_CONFIGURATION with the matching value, for endpoint i.
ConfigureEndpoint(epr, i) ==
    IF endpoints[i].size_in = 0 /\ endpoints[i].size_out = 0 THEN epr
    ELSE
        LET e1 == HwWriteEPnR(epr, epr \cap Not(USB_EPREG_MASK))
            e2 == HwWriteEPnR(e1, e1 \cup endpoints[i].type \cup Bits(i))
            e3 == IF endpoints[i].size_in # 0
                  THEN HwWriteEPnR(e2, Xor(e2, USB_EP_TX_NAK)
                           \cap (USB_EPREG_MASK \cup USB_EPTX_STAT \cup USB_EP_DTOG_TX))
                  ELSE e2
            e4 == IF endpoints[i].size_out # 0
                  THEN HwWriteEPnR(e3, Xor(e3, USB_EP_RX_VALID)
                           \cap (USB_EPREG_MASK \cup USB_EPRX_STAT \cup USB_EP_DTOG_RX))
                  ELSE e3
        IN  e4

\* ConfigValueMatches comparing all 16 bits of wValue.
ConfigValueMatches16(wValue) == wValue = get_config_bConfigurationValue

\* ((uint8_t) req->wValue) == get_config_bConfigurationValue()
ConfigValueMatches(wValue) == wValue % 256 = get_config_bConfigurationValue

SetConfiguration(m, req) ==
    IF req.dir = "D2H" \/ req.rcpt # "DEVICE" \/ m.state = "DEFAULT" THEN R(m, FALSE)
    ELSE IF req.wValue = 0 THEN
        R([m EXCEPT !.state = "ADDRESS",
                    !.epr = [i \in 0..7 |-> IF i >= 1
                                            THEN HwWriteEPnR(m.epr[i], m.epr[i] \cap Not(USB_EPREG_MASK))
                                            ELSE m.epr[i]]], TRUE)
    ELSE IF ConfigValueMatches(req.wValue) THEN
        R([m EXCEPT !.state = "CONFIGURED",
                    !.epr = [i \in 0..7 |-> IF i >= 1 THEN ConfigureEndpoint(m.epr[i], i)
                                            ELSE m.epr[i]]], TRUE)
    ELSE R(m, FALSE)

GetInterface(m, req) ==
    IF req.dir = "H2D" \/ req.rcpt # "INTERFACE" \/ m.state # "CONFIGURED" THEN R(m, FALSE)
    ELSE
        LET itf == usbd_get_interface_descriptor_cb(req.wIndex)
        IN  IF itf = NULL THEN R(m, FALSE)
            ELSE R(usbd_control_in(m, <<"alt", itf[1].bAlternateSetting>>, 1, req.wLength), TRUE)

SetInterface(m, req) ==
    IF req.dir = "D2H" \/ req.rcpt # "INTERFACE" \/ m.state # "CONFIGURED" THEN R(m, FALSE)
    ELSE
        LET itf == usbd_get_interface_descriptor_cb(req.wIndex)
        IN  IF itf = NULL THEN R(m, FALSE)
            ELSE R(m, itf[1].bAlternateSetting = req.wValue % 256)

handle_ctrl_setup(m, req, app) ==
    IF req.type = "CLASS" THEN
        IF usbd_ctrl_request_handle_class_cb_defined
        THEN AppRequestCb(m, req, app, "class_cb")
        ELSE R(m, FALSE)
    ELSE IF req.type = "VENDOR" THEN
        IF usbd_ctrl_request_handle_vendor_cb_defined
        THEN AppRequestCb(m, req, app, "vendor_cb")
        ELSE R(m, FALSE)
    ELSE IF req.bRequest = "GET_STATUS" THEN GetStatus(m, req)
    ELSE IF req.bRequest = "CLEAR_FEATURE" THEN ClearFeature(m, req)
    ELSE IF req.bRequest = "SET_FEATURE" THEN SetFeature(m, req)
    ELSE IF req.bRequest = "SET_ADDRESS" THEN SetAddress(m, req)
    ELSE IF req.bRequest = "GET_DESCRIPTOR" THEN GetDescriptor(m, req, app)
    ELSE IF req.bRequest = "GET_CONFIGURATION" THEN GetConfiguration(m, req)
    ELSE IF req.bRequest = "SET_CONFIGURATION" THEN SetConfiguration(m, req)
    ELSE IF req.bRequest = "GET_INTERFACE" THEN GetInterface(m, req)
    ELSE IF req.bRequest = "SET_INTERFACE" THEN SetInterface(m, req)
    ELSE R(m, FALSE)


----------------------------------------------------------------------------
(* Event loop *)

\* The application's IN callback: it writes a packet to the endpoint or not.
usbd_in_cb(m, ep, app) ==
    LET m1 == Log(m, <<"in_cb", ep>>)
    IN  IF app.in_write THEN usbd_in(m1, ep, <<<<"app", 0>>, 0>>, endpoints[ep].size_in) ELSE m1

\* The application's OUT callback: it reads the packet (re-arming reception) or not.
usbd_out_cb(m, ep, app) ==
    LET m1 == Log(m, <<"out_cb", ep>>)
    IN  IF app.out_read THEN usbd_out(m1, ep, 64) ELSE m1

\* USB->ISTR &= ~flags
ClearISTR(m, flags) ==
    [m EXCEPT !.istr = HwWriteISTR(@, ReadISTR(m.istr, m.epr) \cap Not(flags))]

TaskWkup(m) ==
    LET m1 == ClearISTR(Log(m, <<"WKUP", 0>>), USB_ISTR_SUSP \cup USB_ISTR_WKUP)
        m2 == [m1 EXCEPT !.cntr = @ \cap Not(USB_CNTR_FSUSP)]
    IN  IF usbd_resume_hook_cb_defined THEN Log(m2, <<"resume_hook_cb", 0>>) ELSE m2

TaskSusp(m) ==
    LET m1 == ClearISTR(Log(m, <<"SUSP", 0>>), USB_ISTR_SUSP)
        m2 == [m1 EXCEPT !.cntr = @ \cup USB_CNTR_FSUSP]
    IN  IF usbd_suspend_hook_cb_defined THEN Log(m2, <<"suspend_hook_cb", 0>>) ELSE m2

\* USB->EP0R = (USB->EP0R ^ (RX_VALID | TX_NAK)) & (mask) in the RESET branch
ResetArmEP0(e) ==
    HwWriteEPnR(e, Xor(e, USB_EP_RX_VALID \cup USB_EP_TX_NAK)
                   \cap (USB_EPREG_MASK \cup USB_EPRX_STAT \cup USB_EP_DTOG_RX \cup USB_EP_DTOG_TX))

\* ZeroEPnR writing the constant 0: the toggle bits keep their values.
ZeroEPnRPlain(e) == HwWriteEPnR(e, {})

\* *(endpoints[i].reg) &= ~USB_EPREG_MASK
ZeroEPnR(e) == HwWriteEPnR(e, e \cap Not(USB_EPREG_MASK))

\* TaskReset without the assignment state = STATE_DEFAULT.
TaskResetKeepsState(m) ==
    LET m1 == ClearISTR(Log(m, <<"RESET", 0>>), USB_ISTR_RESET)
        m2 == IF usbd_reset_hook_cb_defined THEN Log(m1, <<"reset_hook_cb", 1>>) ELSE m1
        m3 == [m2 EXCEPT !.epr = [i \in 0..7 |-> ZeroEPnR(m2.epr[i])]]
        m4 == [m3 EXCEPT !.address = 0, !.daddr = USB_DADDR_EF \cup Bits(0)]
        m5 == [m4 EXCEPT !.epr[0] = HwWriteEPnR(@, @ \cup endpoints[0].type)]
        m6 == [m5 EXCEPT !.epr[0] = ResetArmEP0(@)]
    IN  IF usbd_reset_hook_cb_defined THEN Log(m6, <<"reset_hook_cb", 0>>) ELSE m6

TaskReset(m) ==
    LET m1 == ClearISTR(Log(m, <<"RESET", 0>>), USB_ISTR_RESET)
        m2 == IF usbd_reset_hook_cb_defined THEN Log(m1, <<"reset_hook_cb", 1>>) ELSE m1
        m3 == [m2 EXCEPT !.epr = [i \in 0..7 |-> ZeroEPnR(m2.epr[i])]]
        m4 == [m3 EXCEPT !.state = "DEFAULT", !.address = 0,
                         !.daddr = USB_DADDR_EF \cup Bits(0)]
        m5 == [m4 EXCEPT !.epr[0] = HwWriteEPnR(@, @ \cup endpoints[0].type)]
        m6 == [m5 EXCEPT !.epr[0] = ResetArmEP0(@)]
    IN  IF usbd_reset_hook_cb_defined THEN Log(m6, <<"reset_hook_cb", 0>>) ELSE m6

\* SofReady without the test of STAT_TX.
SofReadyAnyStat(m, ep) ==
    endpoints[ep].size_in # 0
    /\ m.epr[ep] \cap USB_EPADDR_FIELD = Bits(ep)

\* The endpoint the SOF branch polls is ready for the IN callback.
SofReady(m, ep) ==
    endpoints[ep].size_in # 0
    /\ m.epr[ep] \cap (USB_EPTX_STAT \cup USB_EPADDR_FIELD) = USB_EP_TX_NAK \cup Bits(ep)

\* TaskSofAdvance wrapping the cursor to 0 instead of 1.
TaskSofAdvanceWrap0(m) ==
    LET m1 == ClearISTR(Log(m, <<"SOF", m.current_ep>>), USB_ISTR_SOF)
    IN  [m1 EXCEPT !.current_ep = IF m.current_ep + 1 >= 8 THEN 0 ELSE m.current_ep + 1]

\* The SOF branch up to the test of the polled endpoint.
TaskSofAdvance(m) ==
    LET m1 == ClearISTR(Log(m, <<"SOF", m.current_ep>>), USB_ISTR_SOF)
    IN  [m1 EXCEPT !.current_ep = IF m.current_ep + 1 >= 8 THEN 1 ELSE m.current_ep + 1]

\* TaskCtrRx0 rejecting a request by a STALL of the IN direction only.
TaskCtrRx0StallTx(m, app) ==
    LET m1  == [m EXCEPT !.epr[0] = HwWriteEPnR(@, @ \cap Xor(USB_EPREG_MASK, USB_EP_CTR_RX))]
        len == usbd_out_rv(m1, 0, 8)
        req == m1.ep0_out
        m2  == usbd_out(m1, 0, 8)
        h   == handle_ctrl_setup(Log(m2, <<"setup", 0>>), req, app)
        st1 == [h.m EXCEPT !.epr[0] = HwWriteEPnR(@, Xor(@, USB_EP_TX_STALL)
                                          \cap (USB_EPREG_MASK \cup USB_EPTX_STAT))]
        n1  == [m2 EXCEPT !.epr[0] = HwWriteEPnR(@, Xor(@, USB_EP_TX_STALL)
                                          \cap (USB_EPREG_MASK \cup USB_EPTX_STAT))]
    IN  IF len # 8 THEN Log(n1, <<"stall", 0>>)
        ELSE IF h.rv THEN
            IF req.dir = "H2D" THEN usbd_control_in(Log(h.m, <<"status_in", 0>>), NULL, 0, req.wLength)
            ELSE h.m
        ELSE Log(st1, <<"stall", 0>>)

\* TaskCtrRx0 arming the status-stage packet whatever the request direction.
TaskCtrRx0StatusAlways(m, app) ==
    LET m1  == [m EXCEPT !.epr[0] = HwWriteEPnR(@, @ \cap Xor(USB_EPREG_MASK, USB_EP_CTR_RX))]
        len == usbd_out_rv(m1, 0, 8)
        req == m1.ep0_out
        m2  == usbd_out(m1, 0, 8)
        h   == handle_ctrl_setup(Log(m2, <<"setup", 0>>), req, app)
        st1 == [h.m EXCEPT !.epr[0] = HwWriteEPnR(@, Xor(@, USB_EP_TX_STALL)
                                          \cap (USB_EPREG_MASK \cup USB_EPTX_STAT))]
        st2 == [st1 EXCEPT !.epr[0] = HwWriteEPnR(@, Xor(@, USB_EP_RX_STALL)
                                          \cap (USB_EPREG_MASK \cup USB_EPRX_STAT))]
        n1  == [m2 EXCEPT !.epr[0] = HwWriteEPnR(@, Xor(@, USB_EP_TX_STALL)
                                          \cap (USB_EPREG_MASK \cup USB_EPTX_STAT))]
        n2  == [n1 EXCEPT !.epr[0] = HwWriteEPnR(@, Xor(@, USB_EP_RX_STALL)
                                          \cap (USB_EPREG_MASK \cup USB_EPRX_STAT))]
    IN  IF len # 8 THEN Log(n2, <<"stall", 0>>)
        ELSE IF h.rv THEN usbd_control_in(Log(h.m, <<"status_in", 0>>), NULL, 0, req.wLength)
        ELSE Log(st2, <<"stall", 0>>)

\* The EP0 SETUP / CTR_RX branch.
TaskCtrRx0(m, app) ==
    LET m1  == [m EXCEPT !.epr[0] = HwWriteEPnR(@, @ \cap Xor(USB_EPREG_MASK, USB_EP_CTR_RX))]
        len == usbd_out_rv(m1, 0, 8)
        req == m1.ep0_out
        m2  == usbd_out(m1, 0, 8)
        h   == handle_ctrl_setup(Log(m2, <<"setup", 0>>), req, app)
        st1 == [h.m EXCEPT !.epr[0] = HwWriteEPnR(@, Xor(@, USB_EP_TX_STALL)
                                          \cap (USB_EPREG_MASK \cup USB_EPTX_STAT))]
        st2 == [st1 EXCEPT !.epr[0] = HwWriteEPnR(@, Xor(@, USB_EP_RX_STALL)
                                          \cap (USB_EPREG_MASK \cup USB_EPRX_STAT))]
        n1  == [m2 EXCEPT !.epr[0] = HwWriteEPnR(@, Xor(@, USB_EP_TX_STALL)
                                          \cap (USB_EPREG_MASK \cup USB_EPTX_STAT))]
        n2  == [n1 EXCEPT !.epr[0] = HwWriteEPnR(@, Xor(@, USB_EP_RX_STALL)
                                          \cap (USB_EPREG_MASK \cup USB_EPRX_STAT))]
    IN  IF len # 8 THEN Log(n2, <<"stall", 0>>)
        ELSE IF h.rv THEN
            IF req.dir = "H2D" THEN usbd_control_in(Log(h.m, <<"status_in", 0>>), NULL, 0, req.wLength)
            ELSE h.m
        ELSE Log(st2, <<"stall", 0>>)

\* The per-endpoint CTR_RX / CTR_TX acknowledgement at the end of usbd_task.
TaskCtrGeneric(m, ep, app) ==
    LET m1 == IF m.epr[ep] \cap USB_EP_CTR_RX # {}
              THEN LET a == [m EXCEPT !.epr[ep] = HwWriteEPnR(@, @ \cap Xor(USB_EPREG_MASK, USB_EP_CTR_RX))]
                   IN  IF usbd_out_cb_defined THEN usbd_out_cb(a, ep, app) ELSE a
              ELSE m
    IN  IF m1.epr[ep] \cap USB_EP_CTR_TX # {}
        THEN [m1 EXCEPT !.epr[ep] = HwWriteEPnR(@, @ \cap Xor(USB_EPREG_MASK, USB_EP_CTR_TX))]
        ELSE m1

\* USB->EP0R &= USB_EPREG_MASK ^ USB_EP_CTR_TX, rd being the value the
\* read of the read-modify-write returned.
TaskCtrTx0Ack(m, rd) ==
    [Log(m, <<"ctr_tx0", 0>>) EXCEPT
        !.epr[0] = HwWriteEPnR(@, rd \cap Xor(USB_EPREG_MASK, USB_EP_CTR_TX))]

\* The EP0 CTR_TX branch after the acknowledgement: address latch, then
\* continuation, else the generic acknowledgement.
TaskCtrTx0Rest(m1, app) ==
    LET m2 == IF m1.set_address
              THEN [m1 EXCEPT !.daddr = USB_DADDR_EF \cup Bits(m1.address),
                              !.set_address = FALSE,
                              !.state = "ADDRESS"]
              ELSE m1
    IN  IF usbd_control_in_resume_rv(m2) THEN Log(usbd_control_in_resume(m2), <<"resume", 0>>)
        ELSE TaskCtrGeneric(m2, 0, app)

\* The EP0 CTR_TX branch.
TaskCtrTx0(m, app) == TaskCtrTx0Rest(TaskCtrTx0Ack(m, m.epr[0]), app)

TaskCtr(m, app) ==
    LET ep == ReadEP_ID(m.epr)
        m1 == Log(m, <<"CTR", ep>>)
    IN  IF ep = 0 THEN
            IF m1.epr[0] \cap (USB_EP_CTR_RX \cup USB_EP_SETUP) # {} THEN TaskCtrRx0(m1, app)
            ELSE IF m1.epr[0] \cap USB_EP_CTR_TX # {} THEN TaskCtrTx0(m1, app)
            ELSE TaskCtrGeneric(m1, 0, app)
        ELSE TaskCtrGeneric(m1, ep, app)

\* usbd_task returning after every processed SOF.
usbd_taskSofReturns(m, app) ==
    LET istr == ReadISTR(m.istr, m.epr)
                \cap (USB_ISTR_CTR \cup USB_ISTR_WKUP \cup USB_ISTR_SUSP \cup USB_ISTR_RESET \cup USB_ISTR_SOF)
    IN  IF istr = {} THEN m
        ELSE IF istr \cap USB_ISTR_WKUP # {} THEN TaskWkup(m)
        ELSE IF istr \cap USB_ISTR_SUSP # {} THEN TaskSusp(m)
        ELSE IF istr \cap USB_ISTR_RESET # {} THEN TaskReset(m)
        ELSE
            LET sof == usbd_in_cb_defined /\ istr \cap USB_ISTR_SOF # {}
                m1  == IF sof THEN TaskSofAdvance(m) ELSE m
            IN  IF sof /\ SofReady(m1, m.current_ep) THEN usbd_in_cb(m1, m.current_ep, app)
                ELSE IF sof THEN m1
                ELSE IF istr \cap USB_ISTR_CTR # {} THEN TaskCtr(m1, app)
                ELSE m1

usbd_task(m, app) ==
    LET istr == ReadISTR(m.istr, m.epr)
                \cap (USB_ISTR_CTR \cup USB_ISTR_WKUP \cup USB_ISTR_SUSP \cup USB_ISTR_RESET \cup USB_ISTR_SOF)
    IN  IF istr = {} THEN m
        ELSE IF istr \cap USB_ISTR_WKUP # {} THEN TaskWkup(m)
        ELSE IF istr \cap USB_ISTR_SUSP # {} THEN TaskSusp(m)
        ELSE IF istr \cap USB_ISTR_RESET # {} THEN TaskReset(m)
        ELSE
            LET sof == usbd_in_cb_defined /\ istr \cap USB_ISTR_SOF # {}
                m1  == IF sof THEN TaskSofAdvance(m) ELSE m
            IN  IF sof /\ SofReady(m1, m.current_ep) THEN usbd_in_cb(m1, m.current_ep, app)
                ELSE IF istr \cap USB_ISTR_CTR # {} THEN TaskCtr(m1, app)
                ELSE m1


----------------------------------------------------------------------------
(* The state machine *)

USB_CNTR_MASKS == {15, 12, 11, 10}
USB_CNTR_SOFM  == {9}

\* The first 8 bytes of an EP0 OUT slot read as a usb_ctrl_request_t.
Req(dir, type, rcpt, bRequest, wValue, wIndex, wLength) ==
    [dir |-> dir, type |-> type, rcpt |-> rcpt, bRequest |-> bRequest,
     wValue |-> wValue, wIndex |-> wIndex, wLength |-> wLength]

\* A slot that holds no request.
NoReq == Req("H2D", "STANDARD", "DEVICE", "NONE", 0, 0, 0)

\* The machine state handed to usbd_task.
M == [state |-> state, set_address |-> set_address, address |-> address,
      daddr |-> DADDR, istr |-> ISTR, cntr |-> CNTR, epr |-> EPnR,
      ctrl_in_buf |-> ctrl_in_buf, ctrl_in_buflen |-> ctrl_in_buflen,
      current_ep |-> current_ep, pma_tx |-> pma_tx, pma_rx |-> pma_rx,
      ep0_out |-> ep0_out,
      log |-> <<<<"usbd_task", 0>>>>]

Becomes(m) ==
    /\ state' = m.state
    /\ set_address' = m.set_address
    /\ address' = m.address
    /\ DADDR' = m.daddr
    /\ ISTR' = m.istr
    /\ CNTR' = m.cntr
    /\ EPnR' = m.epr
    /\ ctrl_in_buf' = m.ctrl_in_buf
    /\ ctrl_in_buflen' = m.ctrl_in_buflen
    /\ current_ep' = m.current_ep
    /\ pma_tx' = m.pma_tx
    /\ pma_rx' = m.pma_rx
    /\ ep0_out' = m.ep0_out
    /\ last' = m.log

\* The endpoint directions a request's wIndex can address.
EndpointDirs == (1..7) \X {"IN", "OUT"}

NoHalt == [k \in EndpointDirs |-> "none"]

\* No endpoint has waited through a SOF event.
NoWait == [k \in 1..7 |-> 0]

\* No control transfer has begun.
NoReply == [req |-> NoReq, ok |-> FALSE, sent |-> <<>>, again |-> FALSE]

\* The endpoint direction wIndex addresses.
DirOf(wIndex) == <<wIndex % 8, IF EptDirIn(wIndex) THEN "IN" ELSE "OUT">>

\* The state after usbd_init on a freshly reset peripheral.
Init ==
    /\ state = "DEFAULT"
    /\ set_address = FALSE
    /\ address = 0
    /\ DADDR = {}
    /\ ISTR = {}
    /\ CNTR = USB_CNTR_MASKS \cup (IF usbd_in_cb_defined THEN USB_CNTR_SOFM ELSE {})
    /\ EPnR = [i \in 0..7 |-> {}]
    /\ ctrl_in_buf = NULL
    /\ ctrl_in_buflen = 0
    /\ current_ep = 1
    /\ pma_tx = [i \in 0..7 |-> [cnt |-> pma_init[i].in_cnt, src |-> NULL]]
    /\ pma_rx = [i \in 0..7 |-> pma_init[i].out_cnt]
    /\ ep0_out = NoReq
    /\ config = [i \in 1..7 |-> [size_in |-> endpoints[i].size_in, size_out |-> endpoints[i].size_out]]
    /\ btable = [i \in 0..7 |-> [in_addr |-> pma_init[i].in_addr, out_addr |-> pma_init[i].out_addr]]
    /\ halt = NoHalt
    /\ reply = NoReply
    /\ waiting = NoWait
    /\ pc = NULL
    /\ last = <<>>

\* The behaviours of the application's callbacks.
\* One call of usbd_task invokes at most one of the request, IN and OUT callbacks,
\* so their behaviours are chosen together.
Apps == {[request |-> "reject", in_write |-> FALSE, out_read |-> FALSE],
         [request |-> "accept", in_write |-> TRUE, out_read |-> TRUE],
         [request |-> "reply", in_write |-> TRUE, out_read |-> TRUE]}

\* The history of ENDPOINT_HALT requests after a call of usbd_task: a handled
\* RESET and an accepted SET_CONFIGURATION forget it, an accepted SET_FEATURE
\* or CLEAR_FEATURE records itself.
HaltAfter(h, log, req) ==
    LET did(tag) == \E i \in 1..Len(log) : log[i][1] = tag
    IN  IF did("RESET") THEN NoHalt
        ELSE IF did("setup") /\ ~did("stall") /\ req.type = "STANDARD" THEN
            IF req.bRequest = "SET_CONFIGURATION" THEN NoHalt
            ELSE IF req.bRequest = "SET_FEATURE" /\ DirOf(req.wIndex)[1] # 0
                 THEN [h EXCEPT ![DirOf(req.wIndex)] = "halted"]
            ELSE IF req.bRequest = "CLEAR_FEATURE" /\ DirOf(req.wIndex)[1] # 0
                 THEN [h EXCEPT ![DirOf(req.wIndex)] = "cleared"]
            ELSE h
        ELSE h

\* The history of the control transfer after a call of usbd_task: a
\* dispatched SETUP starts a new reply, with the packet its handling armed on
\* EP0 IN if any; a continuation fragment armed on an EP0 IN completion is
\* added to the reply; a handled bus reset ends the transfer.  again is kept
\* by the call that dispatches the repeated request only.
ReplyAfter(r, log, req, tx0, epr0) ==
    LET did(tag) == \E i \in 1..Len(log) : log[i][1] = tag
    IN  IF did("setup")
        THEN [req   |-> req,
              ok    |-> ~did("stall"),
              sent  |-> IF epr0 \cap USB_EPTX_STAT = USB_EP_TX_VALID THEN <<tx0>> ELSE <<>>,
              again |-> r.again /\ ~did("stall")]
        ELSE IF did("resume") THEN [r EXCEPT !.sent = Append(@, tx0), !.again = FALSE]
        ELSE IF did("RESET") THEN NoReply
        ELSE [r EXCEPT !.again = FALSE]

\* The history of the control transfer when a SETUP packet arrives: the
\* previous transfer is over.  again: the SETUP is a SET_CONFIGURATION that
\* repeats the handled request of the previous transfer.
ReplyBegin(r, req) ==
    [req   |-> NoReq,
     ok    |-> FALSE,
     sent  |-> <<>>,
     again |-> r.ok /\ r.req = req /\ req.type = "STANDARD" /\ req.bRequest = "SET_CONFIGURATION"]

\* The register epr shows endpoint k ready for the IN callback.
ReadyIn(epr, k) ==
    endpoints[k].size_in # 0
    /\ epr[k] \cap (USB_EPTX_STAT \cup USB_EPADDR_FIELD) = USB_EP_TX_NAK \cup Bits(k)

\* The history of the SOF polling after a call of usbd_task, from the
\* registers before and after it: the count of an endpoint restarts when the
\* endpoint is not ready or has the IN callback invoked for it, and grows by
\* one with each SOF event processed while the endpoint is ready.
WaitAfter(w, log, epr0, epr1) ==
    [k \in 1..7 |->
        IF ~ReadyIn(epr1, k) \/ (\E n \in 1..Len(log) : log[n] = <<"in_cb", k>>) THEN 0
        ELSE LET w0 == IF ReadyIn(epr0, k) THEN w[k] ELSE 0
             IN  IF (\E n \in 1..Len(log) : log[n][1] = "SOF") /\ ReadyIn(epr0, k)
                 THEN w0 + 1
                 ELSE w0]

\* A call of usbd_task; track: whether the history of the SOF polling is kept.
TaskOf(track) ==
    \E app \in Apps :
        /\ pc = NULL
        /\ Becomes(usbd_task(M, app))
        /\ halt' = HaltAfter(halt, last', ep0_out')
        /\ reply' = ReplyAfter(reply, last', ep0_out', pma_tx'[0], EPnR'[0])
        /\ waiting' = IF track THEN WaitAfter(waiting, last', EPnR, EPnR') ELSE waiting
        /\ UNCHANGED <<config, btable, pc>>

Task == TaskOf(FALSE)

TaskFair == TaskOf(TRUE)

(* Environment: the USB peripheral and the host *)


AddrValues == {0, 5, 130}
ConfigValues == {0, 1, 2, 257}

Requests ==
    {Req("H2D", "STANDARD", "DEVICE", "SET_ADDRESS", a, 0, 0) : a \in AddrValues}
    \cup {Req("H2D", "STANDARD", "DEVICE", "SET_CONFIGURATION", c, 0, 0) : c \in ConfigValues}
    \cup {Req("D2H", "STANDARD", "DEVICE", "GET_DESCRIPTOR", 512, 0, 255),
          Req("H2D", "STANDARD", "DEVICE", "SET_DESCRIPTOR", 512, 0, 0),
          Req("H2D", "STANDARD", "ENDPOINT", "SET_FEATURE", 0, 129, 0)}

Enabled0 == USB_DADDR_EF \subseteq DADDR

\* A bus reset is detected.  The peripheral may already have disabled the
\* endpoints itself (all EPnR bits but the CTR flags cleared).
BusReset ==
    /\ ISTR' = ISTR \cup USB_ISTR_RESET
    /\ \E hw \in BOOLEAN :
        EPnR' = IF hw THEN [i \in 0..7 |-> EPnR[i] \cap (USB_EP_CTR_RX \cup USB_EP_CTR_TX)]
                ELSE EPnR
    /\ last' = <<<<"BusReset", 0>>>>
    /\ UNCHANGED <<state, set_address, address, DADDR, CNTR, ctrl_in_buf, ctrl_in_buflen,
                   current_ep, pma_tx, pma_rx, ep0_out>>
    /\ UNCHANGED aux

BusFlag(name, flag) ==
    /\ ISTR' = ISTR \cup flag
    /\ last' = <<<<name, 0>>>>
    /\ UNCHANGED <<state, set_address, address, DADDR, CNTR, EPnR, ctrl_in_buf, ctrl_in_buflen,
                   current_ep, pma_tx, pma_rx, ep0_out>>
    /\ UNCHANGED aux

BusSof  == BusFlag("BusSof", USB_ISTR_SOF)
BusSusp == BusFlag("BusSusp", USB_ISTR_SUSP)
BusWkup == BusFlag("BusWkup", USB_ISTR_WKUP)

\* The received byte count the peripheral stores in an OUT descriptor.
RxCount(old, n) == (old \ USB_COUNT1_RX_0_COUNT1_RX_0) \cup Bits(n)

\* A SETUP packet is received on EP0: both directions become NAK, both data
\* toggles are set, CTR_RX and SETUP are raised.
HostSetupOf(Reqs) ==
    /\ Enabled0
    /\ EPnR[0] \cap USB_EP_T_FIELD = USB_EP_CONTROL
    /\ EPnR[0] \cap USB_EPRX_STAT # USB_EP_RX_DIS
    /\ EPnR[0] \cap USB_EP_CTR_RX = {}
    /\ \E req \in Reqs :
        /\ ep0_out' = req
        /\ reply' = ReplyBegin(reply, req)
    /\ pma_rx' = [pma_rx EXCEPT ![0] = RxCount(@, 8)]
    /\ EPnR' = [EPnR EXCEPT ![0] =
                    (@ \ (USB_EPRX_STAT \cup USB_EPTX_STAT))
                    \cup USB_EP_RX_NAK \cup USB_EP_TX_NAK \cup USB_EP_DTOG_RX \cup USB_EP_DTOG_TX
                    \cup USB_EP_CTR_RX \cup USB_EP_SETUP]
    /\ last' = <<<<"HostSetup", 0>>>>
    /\ UNCHANGED <<state, set_address, address, DADDR, ISTR, CNTR, ctrl_in_buf, ctrl_in_buflen,
                   current_ep, pma_tx>>
    /\ UNCHANGED <<config, btable, halt, waiting, pc>>

\* The SETUP flag follows the last completed transaction unless CTR_RX freezes it.
AfterNonSetup(e, ep) ==
    IF ep = 0 /\ e \cap USB_EP_CTR_RX = {} THEN e \ USB_EP_SETUP ELSE e

\* An IN transaction completes on an endpoint armed for transmission.
HostIn ==
    /\ Enabled0
    /\ \E ep \in 0..7 :
        /\ EPnR[ep] \cap USB_EPTX_STAT = USB_EP_TX_VALID
        /\ EPnR' = [EPnR EXCEPT ![ep] =
                        Xor(AfterNonSetup(@, ep) \ USB_EPTX_STAT, USB_EP_DTOG_TX)
                        \cup USB_EP_TX_NAK \cup USB_EP_CTR_TX]
        /\ last' = <<<<"HostIn", ep>>>>
    /\ UNCHANGED <<state, set_address, address, DADDR, ISTR, CNTR, ctrl_in_buf, ctrl_in_buflen,
                   current_ep, pma_tx, pma_rx, ep0_out>>
    /\ UNCHANGED aux

\* An OUT transaction completes on an endpoint armed for reception: a
\* zero-length packet on EP0, a full packet elsewhere.
HostOut ==
    /\ Enabled0
    /\ \E ep \in 0..7 :
        /\ EPnR[ep] \cap USB_EPRX_STAT = USB_EP_RX_VALID
        /\ EPnR' = [EPnR EXCEPT ![ep] =
                        Xor(AfterNonSetup(@, ep) \ USB_EPRX_STAT, USB_EP_DTOG_RX)
                        \cup USB_EP_RX_NAK \cup USB_EP_CTR_RX]
        /\ pma_rx' = [pma_rx EXCEPT ![ep] =
                        RxCount(@, IF ep = 0 THEN 0 ELSE endpoints[ep].size_out)]
        /\ last' = <<<<"HostOut", ep>>>>
    /\ UNCHANGED <<state, set_address, address, DADDR, ISTR, CNTR, ctrl_in_buf, ctrl_in_buflen,
                   current_ep, pma_tx, ep0_out>>
    /\ UNCHANGED aux

HostSetup == HostSetupOf(Requests)

\* Control traffic, endpoint traffic and bus resets.
Next == Task \/ BusReset \/ HostSetup \/ HostIn \/ HostOut

Spec == Init /\ [][Next]_vars

\* Descriptor reads of every length class, with the traffic they cause.
LengthValues == {0, 2, 18, 63, 64, 65, 128, 150, 255}

RequestsIn ==
    {Req("D2H", "STANDARD", "DEVICE", "GET_DESCRIPTOR", t * 256, 0, w) :
        t \in {USB_DESCR_TYPE_DEVICE, USB_DESCR_TYPE_CONFIGURATION, USB_DESCR_TYPE_STRING},
        w \in LengthValues}
    \cup {Req("H2D", "STANDARD", "DEVICE", "SET_ADDRESS", 5, 0, 0)}

HostSetupIn == HostSetupOf(RequestsIn)

NextIn == Task \/ BusReset \/ HostSetupIn \/ HostIn \/ HostOut

SpecIn == Init /\ [][NextIn]_vars

\* Control requests of every kind: accepted and rejected, with and without data.
RequestsCtl ==
    {Req("H2D", "STANDARD", "DEVICE", "SET_ADDRESS", 5, 0, 0),
     Req("H2D", "STANDARD", "DEVICE", "SET_CONFIGURATION", 1, 0, 0),
     Req("H2D", "STANDARD", "DEVICE", "SET_CONFIGURATION", 2, 0, 0),
     Req("D2H", "STANDARD", "DEVICE", "GET_CONFIGURATION", 0, 0, 1),
     Req("D2H", "STANDARD", "DEVICE", "GET_STATUS", 0, 0, 2),
     Req("D2H", "STANDARD", "DEVICE", "GET_DESCRIPTOR", USB_DESCR_TYPE_CONFIGURATION * 256, 0, 255),
     Req("D2H", "STANDARD", "DEVICE", "GET_DESCRIPTOR", USB_DESCR_TYPE_STRING * 256 + 1, 0, 255),
     Req("H2D", "STANDARD", "DEVICE", "SET_DESCRIPTOR", USB_DESCR_TYPE_CONFIGURATION * 256, 0, 0),
     Req("D2H", "STANDARD", "ENDPOINT", "SYNCH_FRAME", 0, 129, 2),
     Req("D2H", "STANDARD", "DEVICE", "UNKNOWN", 0, 0, 0),
     Req("H2D", "CLASS", "INTERFACE", "UNKNOWN", 0, 0, 0),
     Req("H2D", "VENDOR", "DEVICE", "UNKNOWN", 0, 0, 0),
     Req("D2H", "VENDOR", "DEVICE", "UNKNOWN", 0, 0, 4)}

HostSetupCtl == HostSetupOf(RequestsCtl)

NextCtl == Task \/ BusReset \/ HostSetupCtl \/ HostIn \/ HostOut

SpecCtl == Init /\ [][NextCtl]_vars

\* The ENDPOINT_HALT feature and the endpoint status, with endpoint traffic.
RequestsHalt ==
    {Req("H2D", "STANDARD", "DEVICE", "SET_ADDRESS", 5, 0, 0),
     Req("H2D", "STANDARD", "DEVICE", "SET_CONFIGURATION", 1, 0, 0)}
    \cup {Req("H2D", "STANDARD", "ENDPOINT", b, USB_FEAT_ENDPOINT_HALT, k, 0) :
            b \in {"SET_FEATURE", "CLEAR_FEATURE"}, k \in {129, 2}}
    \cup {Req("D2H", "STANDARD", "ENDPOINT", "GET_STATUS", 0, k, 2) : k \in {129, 2}}

HostSetupHalt == HostSetupOf(RequestsHalt)

NextHalt == Task \/ BusReset \/ HostSetupHalt \/ HostIn \/ HostOut

SpecHalt == Init /\ [][NextHalt]_vars

\* Standard requests sent with the direction bit inverted, in every device
\* state, with a multi-packet descriptor read whose continuation they meet.
RequestsDir ==
    {Req("H2D", "STANDARD", "DEVICE", "SET_ADDRESS", 5, 0, 0),
     Req("H2D", "STANDARD", "DEVICE", "SET_CONFIGURATION", 1, 0, 0),
     Req("D2H", "STANDARD", "DEVICE", "GET_DESCRIPTOR", USB_DESCR_TYPE_CONFIGURATION * 256, 0, 255),
     Req("H2D", "STANDARD", "DEVICE", "GET_STATUS", 0, 0, 2),
     Req("H2D", "STANDARD", "DEVICE", "GET_DESCRIPTOR", USB_DESCR_TYPE_DEVICE * 256, 0, 18),
     Req("H2D", "STANDARD", "DEVICE", "GET_CONFIGURATION", 0, 0, 1),
     Req("H2D", "STANDARD", "INTERFACE", "GET_INTERFACE", 0, 0, 1),
     Req("D2H", "STANDARD", "ENDPOINT", "CLEAR_FEATURE", USB_FEAT_ENDPOINT_HALT, 129, 0),
     Req("D2H", "STANDARD", "ENDPOINT", "SET_FEATURE", USB_FEAT_ENDPOINT_HALT, 129, 0),
     Req("D2H", "STANDARD", "DEVICE", "SET_ADDRESS", 5, 0, 0),
     Req("D2H", "STANDARD", "DEVICE", "SET_CONFIGURATION", 1, 0, 0),
     Req("D2H", "STANDARD", "DEVICE", "SET_CONFIGURATION", 0, 0, 0),
     Req("D2H", "STANDARD", "INTERFACE", "SET_INTERFACE", 0, 0, 0)}

HostSetupDir == HostSetupOf(RequestsDir)

NextDir == Task \/ BusReset \/ HostSetupDir \/ HostIn \/ HostOut

SpecDir == Init /\ [][NextDir]_vars

\* Frames on a device that is enumerated, with its IN endpoint written by the
\* IN callback, read by the host, halted and resumed.
RequestsSof ==
    {Req("H2D", "STANDARD", "DEVICE", "SET_ADDRESS", 5, 0, 0),
     Req("H2D", "STANDARD", "DEVICE", "SET_CONFIGURATION", 1, 0, 0)}
    \cup {Req("H2D", "STANDARD", "ENDPOINT", b, USB_FEAT_ENDPOINT_HALT, 129, 0) :
            b \in {"SET_FEATURE", "CLEAR_FEATURE"}}

HostSetupSof == HostSetupOf(RequestsSof)

NextSof == Task \/ BusReset \/ BusSof \/ HostSetupSof \/ HostIn

SpecSof == Init /\ [][NextSof]_vars

\* The endpoint addresses of the feature requests: EP0, the enabled and the
\* disabled direction of EP1 and EP2, an unused endpoint, and an endpoint
\* number above 7.
FeatureIndexes == {0, 128, 129, 1, 2, 130, 3, 137}

\* The feature requests in every device state, with endpoint traffic.
RequestsFeat ==
    {Req("H2D", "STANDARD", "DEVICE", "SET_ADDRESS", 5, 0, 0),
     Req("H2D", "STANDARD", "DEVICE", "SET_CONFIGURATION", 1, 0, 0),
     Req("H2D", "STANDARD", "DEVICE", "SET_FEATURE", 1, 0, 0),
     Req("H2D", "STANDARD", "ENDPOINT", "CLEAR_FEATURE", 1, 129, 0)}
    \cup {Req("H2D", "STANDARD", "ENDPOINT", b, USB_FEAT_ENDPOINT_HALT, k, 0) :
            b \in {"SET_FEATURE", "CLEAR_FEATURE"}, k \in FeatureIndexes}

HostSetupFeat == HostSetupOf(RequestsFeat)

NextFeat == Task \/ BusReset \/ HostSetupFeat \/ HostIn \/ HostOut

SpecFeat == Init /\ [][NextFeat]_vars

\* GET_STATUS for every recipient in every device state: an interface that
\* exists and one that does not, an enabled and a disabled endpoint direction.
RequestsStat ==
    {Req("H2D", "STANDARD", "DEVICE", "SET_ADDRESS", 5, 0, 0),
     Req("H2D", "STANDARD", "DEVICE", "SET_CONFIGURATION", 1, 0, 0),
     Req("D2H", "STANDARD", "DEVICE", "GET_STATUS", 0, 0, 2)}
    \cup {Req("D2H", "STANDARD", "INTERFACE", "GET_STATUS", 0, i, 2) : i \in {0, 1}}
    \cup {Req("D2H", "STANDARD", "ENDPOINT", "GET_STATUS", 0, k, 2) : k \in {129, 2, 130}}

HostSetupStat == HostSetupOf(RequestsStat)

NextStat == Task \/ BusReset \/ HostSetupStat \/ HostIn \/ HostOut

SpecStat == Init /\ [][NextStat]_vars

\* The 8-byte payloads of the data stage, named by the request their bytes
\* read as: a SET_CONFIGURATION(0) and a SET_ADDRESS(9).
DataPackets ==
    {Req("H2D", "STANDARD", "DEVICE", "SET_CONFIGURATION", 0, 0, 0),
     Req("H2D", "STANDARD", "DEVICE", "SET_ADDRESS", 9, 0, 0)}

\* The OUT data stage of a handled host-to-device request with wLength = 8:
\* an 8-byte OUT packet is received on EP0, CTR_RX is raised without SETUP.
HostOutData0 ==
    /\ Enabled0
    /\ EPnR[0] \cap USB_EPRX_STAT = USB_EP_RX_VALID
    /\ reply.ok /\ reply.req.dir = "H2D" /\ reply.req.wLength = 8
    /\ \E data \in DataPackets : ep0_out' = data
    /\ pma_rx' = [pma_rx EXCEPT ![0] = RxCount(@, 8)]
    /\ EPnR' = [EPnR EXCEPT ![0] =
                    Xor(AfterNonSetup(@, 0) \ USB_EPRX_STAT, USB_EP_DTOG_RX)
                    \cup USB_EP_RX_NAK \cup USB_EP_CTR_RX]
    /\ last' = <<<<"HostOutData", 0>>>>
    /\ UNCHANGED <<state, set_address, address, DADDR, ISTR, CNTR, ctrl_in_buf, ctrl_in_buflen,
                   current_ep, pma_tx>>
    /\ UNCHANGED aux

\* Control transfers with an OUT data stage: a vendor request with 8 bytes of data.
RequestsData ==
    {Req("H2D", "STANDARD", "DEVICE", "SET_ADDRESS", 5, 0, 0),
     Req("H2D", "STANDARD", "DEVICE", "SET_CONFIGURATION", 1, 0, 0),
     Req("H2D", "VENDOR", "DEVICE", "UNKNOWN", 0, 0, 8)}

HostSetupData == HostSetupOf(RequestsData)

NextData == Task \/ BusReset \/ HostSetupData \/ HostIn \/ HostOut \/ HostOutData0

SpecData == Init /\ [][NextData]_vars

\* Every bus event class, with the requests of enumeration only.
RequestsEv ==
    {Req("H2D", "STANDARD", "DEVICE", "SET_ADDRESS", 5, 0, 0),
     Req("H2D", "STANDARD", "DEVICE", "SET_CONFIGURATION", 1, 0, 0)}

HostSetupEv == HostSetupOf(RequestsEv)

NextEv == Task \/ BusReset \/ BusSof \/ BusSusp \/ BusWkup \/ HostSetupEv \/ HostIn

SpecEv == Init /\ [][NextEv]_vars

\* Frames on an enumerated device whose IN endpoint the application leaves
\* ready or writes, with the history of the SOF polling.
NextFair == TaskFair \/ BusReset \/ BusSof \/ HostSetupEv \/ HostIn

SpecFair == Init /\ [][NextFair]_vars

\* Enumeration, frames and traffic on every endpoint.
NextCfg == Task \/ BusReset \/ BusSof \/ HostSetupEv \/ HostIn \/ HostOut

SpecCfg == Init /\ [][NextCfg]_vars

\* The application calling usbd_in and usbd_out from its main loop, on enabled
\* and disabled directions and on an endpoint number out of range.
AppEpts == {1, 2, 8}
AppLens == {0, 8}
AppCaps == {8, 64, 100}

\* usbd_in(ept, buf, n); idle: called with no transmission ongoing on the
\* endpoint only.
AppInOf(Epts, Lens, idle) ==
    \E ept \in Epts, n \in Lens :
        /\ (idle /\ ept < 8) => EPnR[ept] \cap USB_EPTX_STAT # USB_EP_TX_VALID
        /\ Becomes(Log(usbd_in([M EXCEPT !.log = <<<<"usbd_in", ept>>, <<"buflen", n>>>>],
                               ept, <<<<"app", 0>>, 0>>, n),
                       <<"rv", IF usbd_in_rv(ept) THEN 1 ELSE 0>>))
        /\ UNCHANGED aux

AppIn == AppInOf(AppEpts, AppLens, TRUE)

\* usbd_out(ept, buf, cap): rv bytes are copied to buf.
AppOutOf(Epts, Caps) ==
    \E ept \in Epts, cap \in Caps :
        LET rv == usbd_out_rv(M, ept, cap)
            m1 == usbd_out([M EXCEPT !.log = <<<<"usbd_out", ept>>, <<"buflen", cap>>>>], ept, cap)
        IN  /\ Becomes(Log(Log(m1, <<"memcpy", rv>>), <<"rv", rv>>))
            /\ UNCHANGED aux

AppOut == AppOutOf(AppEpts, AppCaps)

\* The calls on a device that is attached and reset, before its enumeration.
NextApp == Task \/ BusReset \/ HostSetupEv \/ AppIn \/ AppOut

SpecApp == Init /\ [][NextApp]_vars

\* usbd_out on the enabled OUT endpoint, with enumeration and endpoint traffic.
AppOutEnabled == AppOutOf({i \in 1..7 : endpoints[i].size_out # 0}, AppCaps)

NextOut == Task \/ BusReset \/ HostSetupEv \/ HostIn \/ HostOut \/ AppOutEnabled

SpecOut == Init /\ [][NextOut]_vars

\* usbd_out(ept, buf, cap, autoenable) as usbd.h declares it, on the enabled
\* OUT endpoint: the definition in usbd.c takes and uses the first three
\* arguments only.
AppOutAuto ==
    \E ept \in {i \in 1..7 : endpoints[i].size_out # 0}, autoenable \in BOOLEAN :
        LET cap == endpoints[ept].size_out
            rv  == usbd_out_rv(M, ept, cap)
            m1  == usbd_out([M EXCEPT !.log = <<<<"usbd_out", ept>>, <<"buflen", cap>>,
                                               <<"autoenable", IF autoenable THEN 1 ELSE 0>>>>],
                            ept, cap)
        IN  /\ Becomes(Log(Log(m1, <<"memcpy", rv>>), <<"rv", rv>>))
            /\ UNCHANGED aux

NextFlow == Task \/ BusReset \/ HostSetupEv \/ HostIn \/ HostOut \/ AppOutAuto

SpecFlow == Init /\ [][NextFlow]_vars

\* usbd_in on the enabled IN endpoint, with packets up to its size, whatever
\* the state of the endpoint: disabled, idle, transmitting or halted.
AppInEnabled ==
    AppInOf({i \in 1..7 : endpoints[i].size_in # 0}, {0, 7, endpoints[1].size_in}, FALSE)

NextWrite == Task \/ BusReset \/ HostSetupSof \/ HostIn \/ AppInEnabled

SpecWrite == Init /\ [][NextWrite]_vars

\* The peripheral acting while usbd_task executes its EP0 CTR_TX branch.
\* usbd_task is about to acknowledge the EP0 IN completion: the tests of
\* usbd.c:645-665 are made and the register is read for the read-modify-write
\* of usbd.c:666.
TaskCtrTx0Read ==
    /\ pc = NULL
    /\ ISTR = {}
    /\ ReadEP_ID(EPnR) = 0
    /\ EPnR[0] \cap (USB_EP_CTR_RX \cup USB_EP_SETUP) = {}
    /\ EPnR[0] \cap USB_EP_CTR_TX # {}
    /\ pc' = [at |-> "ack", rd |-> EPnR[0]]
    /\ last' = <<<<"usbd_task", 0>>, <<"CTR", 0>>, <<"read", 0>>>>
    /\ UNCHANGED <<state, set_address, address, DADDR, ISTR, CNTR, EPnR, ctrl_in_buf,
                   ctrl_in_buflen, current_ep, pma_tx, pma_rx, ep0_out>>
    /\ UNCHANGED <<config, btable, halt, reply, waiting>>

\* The write of the read-modify-write of usbd.c:666.
TaskCtrTx0Write ==
    /\ pc # NULL
    /\ pc.at = "ack"
    /\ Becomes(TaskCtrTx0Ack([M EXCEPT !.log = <<<<"write", 0>>>>], pc.rd))
    /\ pc' = [at |-> "rest", rd |-> {}]
    /\ UNCHANGED <<config, btable, halt, reply, waiting>>

\* The rest of the call, usbd.c:668-686.
TaskCtrTx0Finish ==
    /\ pc # NULL
    /\ pc.at = "rest"
    /\ \E app \in Apps :
        Becomes(TaskCtrTx0Rest([M EXCEPT !.log = <<<<"rest", 0>>>>], app))
    /\ pc' = NULL
    /\ halt' = HaltAfter(halt, last', ep0_out')
    /\ reply' = ReplyAfter(reply, last', ep0_out', pma_tx'[0], EPnR'[0])
    /\ UNCHANGED <<config, btable, waiting>>

RequestsRace ==
    {Req("H2D", "STANDARD", "DEVICE", "SET_ADDRESS", 5, 0, 0),
     Req("D2H", "STANDARD", "DEVICE", "GET_DESCRIPTOR", 512, 0, 255)}

HostSetupRace == HostSetupOf(RequestsRace)

\* Control transfers with the EP0 IN completion handled step by step.
NextRace ==
    Task \/ BusReset \/ HostSetupRace \/ HostIn \/ HostOut
    \/ TaskCtrTx0Read \/ TaskCtrTx0Write \/ TaskCtrTx0Finish

SpecRace == Init /\ [][NextRace]_vars

\* The peripheral raising bus event flags while usbd_task clears one.
\* The flags usbd_task clears with USB->ISTR &= ~flag.
IstrCleared == USB_ISTR_WKUP \cup USB_ISTR_SUSP \cup USB_ISTR_RESET \cup USB_ISTR_SOF

\* usbd_task has read ISTR (usbd.c:588) and takes a branch that clears a flag:
\* the register is read for the read-modify-write of usbd.c:593, 601, 609 or 632.
TaskIstrRead ==
    /\ pc = NULL
    /\ \/ ISTR \cap (USB_ISTR_WKUP \cup USB_ISTR_SUSP \cup USB_ISTR_RESET) # {}
       \/ usbd_in_cb_defined /\ ISTR \cap USB_ISTR_SOF # {}
    /\ pc' = [at |-> "istr", rd |-> ISTR]
    /\ last' = <<<<"usbd_task", 0>>, <<"read", 0>>>>
    /\ UNCHANGED <<state, set_address, address, DADDR, ISTR, CNTR, EPnR, ctrl_in_buf,
                   ctrl_in_buflen, current_ep, pma_tx, pma_rx, ep0_out>>
    /\ UNCHANGED <<config, btable, halt, reply, waiting>>

\* The write of the read-modify-write and the rest of the call.  The branch is
\* the one of the value read, and the value stored is the value read without
\* the flags of that branch: a flag of the register survives the store when it
\* is written 1, that is, when it was in the value read and is not cleared.
TaskIstrWrite ==
    /\ pc # NULL
    /\ pc.at = "istr"
    /\ \E app \in Apps :
        LET m == usbd_task([M EXCEPT !.istr = pc.rd], app)
        IN  Becomes([m EXCEPT !.istr = HwWriteISTR(ISTR, @)])
    /\ pc' = NULL
    /\ halt' = HaltAfter(halt, last', ep0_out')
    /\ reply' = ReplyAfter(reply, last', ep0_out', pma_tx'[0], EPnR'[0])
    /\ UNCHANGED <<config, btable, waiting>>

\* Bus events with the clearing of an event flag done in two steps.
NextIstr ==
    Task \/ BusReset \/ BusSof \/ BusSusp \/ BusWkup \/ TaskIstrRead \/ TaskIstrWrite

SpecIstr == Init /\ [][NextIstr]_vars

\* The size of the packet memory the build-time check assumes.
PMA_SIZE == 1024

\* The USBD_EPn_IN_SIZE / USBD_EPn_OUT_SIZE values a build may define.
PmaSizes == {0, 8, 64, 200, 256, 300, 512}

\* The endpoints whose sizes vary between the builds considered.
PmaVaried == {1, 7}

\* The #if ... #error check on the sum of the sizes of EP1..EP7.
BuildAccepts(cfg) ==
    cfg[1].size_in + cfg[1].size_out + cfg[2].size_in + cfg[2].size_out
    + cfg[3].size_in + cfg[3].size_out + cfg[4].size_in + cfg[4].size_out
    + cfg[5].size_in + cfg[5].size_out + cfg[6].size_in + cfg[6].size_out
    + cfg[7].size_in + cfg[7].size_out
        <= PMA_SIZE - 64 - USBD_EP0_SIZE - USBD_EP0_SIZE

\* endpoints[] as built from the size macros cfg: size_in and size_out are uint8_t.
EndpointsOf(cfg) ==
    [i \in 0..7 |->
        IF i = 0 THEN endpoints[0]
        ELSE [type     |-> endpoints[i].type,
              size_in  |-> cfg[i].size_in % 256,
              size_out |-> cfg[i].size_out % 256]]

\* A build accepted by the check, its sizes taken from Sizes, before
\* usbd_init: the descriptor table is not written yet.
InitPmaOf(Sizes) ==
    /\ state = "DEFAULT"
    /\ set_address = FALSE
    /\ address = 0
    /\ DADDR = {}
    /\ ISTR = {}
    /\ CNTR = {}
    /\ EPnR = [i \in 0..7 |-> {}]
    /\ ctrl_in_buf = NULL
    /\ ctrl_in_buflen = 0
    /\ current_ep = 1
    /\ pma_tx = [i \in 0..7 |-> [cnt |-> 0, src |-> NULL]]
    /\ pma_rx = [i \in 0..7 |-> {}]
    /\ ep0_out = NoReq
    /\ \E sizes \in [PmaVaried -> [size_in : Sizes, size_out : Sizes]] :
        config = [i \in 1..7 |-> IF i \in PmaVaried THEN sizes[i]
                                 ELSE [size_in |-> 0, size_out |-> 0]]
    /\ BuildAccepts(config)
    /\ btable = [i \in 0..7 |-> [in_addr |-> 0, out_addr |-> 0]]
    /\ halt = NoHalt
    /\ reply = NoReply
    /\ waiting = NoWait
    /\ pc = NULL
    /\ last = <<>>

InitPma == InitPmaOf(PmaSizes)

\* usbd_init: pma_init writes the descriptor table, then the interrupt mask.
UsbdInit ==
    /\ last = <<>>
    /\ LET t == PmaTable(EndpointsOf(config))
       IN  /\ btable' = [i \in 0..7 |-> [in_addr |-> t[i].in_addr, out_addr |-> t[i].out_addr]]
           /\ pma_tx' = [i \in 0..7 |-> [cnt |-> t[i].in_cnt, src |-> NULL]]
           /\ pma_rx' = [i \in 0..7 |-> t[i].out_cnt]
    /\ ISTR' = {}
    /\ CNTR' = USB_CNTR_MASKS \cup (IF usbd_in_cb_defined THEN USB_CNTR_SOFM ELSE {})
    /\ last' = <<<<"usbd_init", 0>>>>
    /\ UNCHANGED <<state, set_address, address, DADDR, EPnR, ctrl_in_buf, ctrl_in_buflen,
                   current_ep, ep0_out, config, halt, reply, waiting, pc>>

SpecPma == InitPma /\ [][UsbdInit]_vars

\* An OUT size the count format of the peripheral can encode.
RxEncodable(s) ==
    s = 0 \/ (s <= 62 /\ s % 2 = 0) \/ (s > 62 /\ s <= 992 /\ s % 32 = 0)

\* Builds with odd and even packet sizes below 256, the OUT sizes encodable.
CopySizes == {0, 7, 8, 64}

InitCopy == InitPmaOf(CopySizes) /\ \A i \in 1..7 : RxEncodable(config[i].size_out)

\* The lengths usbd_in is called with.
CopyLens == {0, 1, 7, 8, 63, 64}

\* The number of 16-bit words the copy loop of usbd_in stores.
usbd_in_words(buflen) == (buflen + 1) \div 2

\* usbd_in(ept, buf, buflen) after usbd_init, with buflen up to the configured
\* IN size, on an endpoint whose IN slot is halfword aligned: the loop stores
\* words from the address of the IN descriptor on, then the count is written
\* and the endpoint armed.
AppInCopy ==
    /\ last # <<>>
    /\ \E ept \in PmaVaried, buflen \in CopyLens :
        /\ buflen <= config[ept].size_in
        /\ btable[ept].in_addr # 0
        /\ btable[ept].in_addr % 2 = 0
        /\ pma_tx' = [pma_tx EXCEPT ![ept] = [cnt |-> buflen, src |-> <<<<"app", 0>>, 0>>]]
        /\ EPnR' = [EPnR EXCEPT ![ept] =
                        HwWriteEPnR(@, Xor(@, USB_EP_TX_VALID) \cap (USB_EPREG_MASK \cup USB_EPTX_STAT))]
        /\ last' = <<<<"usbd_in", ept>>, <<"buflen", buflen>>,
                     <<"copy", btable[ept].in_addr>>,
                     <<"copy_end", btable[ept].in_addr + 2 * usbd_in_words(buflen)>>,
                     <<"rv", 1>>>>
    /\ UNCHANGED <<state, set_address, address, DADDR, ISTR, CNTR, ctrl_in_buf, ctrl_in_buflen,
                   current_ep, pma_rx, ep0_out>>
    /\ UNCHANGED aux

SpecCopy == InitCopy /\ [][UsbdInit \/ AppInCopy]_vars

TypeOK ==
    /\ state \in {"DEFAULT", "ADDRESS", "CONFIGURED"}
    /\ set_address \in BOOLEAN
    /\ address \in 0..127
    /\ current_ep \in 1..7
    /\ \A i \in 0..7 : EPnR[i] \subseteq Word


----------------------------------------------------------------------------
(* Observations on the step just taken *)

\* The step just taken logged an entry with this tag.
Did(tag) == \E i \in 1..Len(last) : last[i][1] = tag

DidWith(tag, arg) == \E i \in 1..Len(last) : last[i] = <<tag, arg>>

\* The step just taken was a call of usbd_task.
IsTask == Did("usbd_task")

\* The event classes the call of usbd_task just taken processed.
Handled == {c \in {"WKUP", "SUSP", "RESET", "SOF", "CTR"} : Did(c)}

\* The request of the SETUP the step just taken dispatched.
SetupReq == ep0_out

StatTx(e) == e \cap USB_EPTX_STAT
StatRx(e) == e \cap USB_EPRX_STAT

----------------------------------------------------------------------------
(* Claims *)

\* C2: whenever usbd_task has just handled a RESET event, the device state is
\* Default, the stored address is 0 and DADDR holds EF|0.
C2_ResetReturnsToDefault ==
    Did("RESET") => state = "DEFAULT" /\ address = 0 /\ DADDR = USB_DADDR_EF

\* A RESET handled while a SET_ADDRESS latch was pending.
C2_Witness == Did("RESET") /\ set_address

\* C3: after usbd_task handles a RESET event the control-IN continuation is
\* empty (no pointer, remaining length 0).
C3_ContinuationClearedByReset ==
    Did("RESET") => ctrl_in_buf = NULL /\ ctrl_in_buflen = 0

\* C4: after usbd_task handles a RESET event the pending-address flag is clear.
C4_LatchClearedByReset ==
    Did("RESET") => ~set_address

\* C8: after usbd_task handles a RESET event, EP0R has type Control,
\* STAT_RX = VALID, STAT_TX = NAK and both data toggles 0.
C8_ResetArmsEP0 ==
    Did("RESET") =>
        /\ EPnR[0] \cap USB_EP_T_FIELD = USB_EP_CONTROL
        /\ StatRx(EPnR[0]) = USB_EP_RX_VALID
        /\ StatTx(EPnR[0]) = USB_EP_TX_NAK
        /\ EPnR[0] \cap (USB_EP_DTOG_RX \cup USB_EP_DTOG_TX) = {}


\* The step just taken dispatched a well-formed standard request b.
DispatchedStd(b) ==
    /\ Did("setup")
    /\ SetupReq.type = "STANDARD"
    /\ SetupReq.bRequest = b

DispatchedSetAddress ==
    DispatchedStd("SET_ADDRESS") /\ SetupReq.dir = "H2D" /\ SetupReq.rcpt = "DEVICE"

Addr7(wValue) == FromBits(Bits(wValue) \cap USB_DADDR_ADD)

C5_SetAddressColumnOriginal ==
    (Did("ctr_tx0") /\ SetupReq.bRequest = "SET_ADDRESS" /\ SetupReq.type = "STANDARD"
        /\ SetupReq.dir = "H2D" /\ SetupReq.rcpt = "DEVICE" /\ SetupReq.wValue # 0)
    => (state = "ADDRESS" /\ DADDR = USB_DADDR_EF \cup Bits(Addr7(SetupReq.wValue)))

\* C5 (amended): from Default or Address the IN completion that follows a
\* SET_ADDRESS with a non-zero value leaves the device in Address with
\* DADDR = EF|(value & 0x7F); in Configured the SETUP is acknowledged
\* without latching: state, DADDR, stored address and flag are unchanged.
C5_SetAddressColumn ==
    [][/\ (state = "CONFIGURED" /\ DispatchedSetAddress') =>
            /\ state' = "CONFIGURED"
            /\ DADDR' = DADDR
            /\ address' = address
            /\ set_address' = set_address
            /\ ~Did("stall")'
            /\ Did("status_in")'
       /\ (state # "CONFIGURED" /\ Did("ctr_tx0")' /\ SetupReq'.bRequest = "SET_ADDRESS"
            /\ SetupReq'.type = "STANDARD" /\ SetupReq'.dir = "H2D"
            /\ SetupReq'.rcpt = "DEVICE" /\ SetupReq'.wValue # 0) =>
            /\ state' = "ADDRESS"
            /\ DADDR' = USB_DADDR_EF \cup Bits(Addr7(SetupReq'.wValue))]_vars

\* A SET_ADDRESS with a non-zero value has just been acknowledged in Configured.
C5_Witness ==
    /\ DispatchedSetAddress
    /\ SetupReq.wValue # 0
    /\ state = "CONFIGURED"
    /\ Did("status_in")
    /\ ~set_address


DispatchedSetConfig ==
    DispatchedStd("SET_CONFIGURATION") /\ SetupReq.dir = "H2D" /\ SetupReq.rcpt = "DEVICE"

\* The step just taken rejected the request: both EP0 directions are STALL.
Rejected ==
    /\ Did("stall")
    /\ StatTx(EPnR[0]) = USB_EP_TX_STALL
    /\ StatRx(EPnR[0]) = USB_EP_RX_STALL

\* C6 (as stated): SET_CONFIGURATION in Address or Configured: 0 -> Address with
\* EPnR 1..7 zero; wValue equal to bConfigurationValue -> Configured; any other
\* wValue rejected with state and EPnR 1..7 unchanged; in Default always
\* rejected.  Configured is entered only by an accepted matching request.
C6_SetConfigurationOriginal ==
    [][/\ DispatchedSetConfig' =>
            IF state = "DEFAULT"
            THEN Rejected' /\ state' = state /\ \A i \in 1..7 : EPnR'[i] = EPnR[i]
            ELSE IF SetupReq'.wValue = 0
            THEN state' = "ADDRESS" /\ ~Did("stall")' /\ \A i \in 1..7 : EPnR'[i] = {}
            ELSE IF SetupReq'.wValue = get_config_bConfigurationValue
            THEN state' = "CONFIGURED" /\ ~Did("stall")'
            ELSE Rejected' /\ state' = state /\ \A i \in 1..7 : EPnR'[i] = EPnR[i]
       /\ (state' = "CONFIGURED" /\ state # "CONFIGURED") =>
            /\ DispatchedSetConfig'
            /\ SetupReq'.wValue = get_config_bConfigurationValue
            /\ ~Did("stall")']_vars

\* C6 (amended): as stated, but the value compared with bConfigurationValue is
\* the low byte of a non-zero wValue: a non-zero wValue whose low byte equals
\* bConfigurationValue is accepted, every other non-zero wValue is rejected.
C6_SetConfiguration ==
    [][/\ DispatchedSetConfig' =>
            IF state = "DEFAULT"
            THEN Rejected' /\ state' = state /\ \A i \in 1..7 : EPnR'[i] = EPnR[i]
            ELSE IF SetupReq'.wValue = 0
            THEN state' = "ADDRESS" /\ ~Did("stall")' /\ \A i \in 1..7 : EPnR'[i] = {}
            ELSE IF SetupReq'.wValue % 256 = get_config_bConfigurationValue
            THEN state' = "CONFIGURED" /\ ~Did("stall")'
            ELSE Rejected' /\ state' = state /\ \A i \in 1..7 : EPnR'[i] = EPnR[i]
       /\ (state' = "CONFIGURED" /\ state # "CONFIGURED") =>
            /\ DispatchedSetConfig'
            /\ SetupReq'.wValue # 0
            /\ SetupReq'.wValue % 256 = get_config_bConfigurationValue
            /\ ~Did("stall")']_vars

\* A SET_CONFIGURATION whose wValue has a non-zero high byte has been accepted.
C6_Witness ==
    /\ DispatchedSetConfig
    /\ SetupReq.wValue > 255
    /\ state = "CONFIGURED"
    /\ Did("status_in")

\* The step just taken accepted a SET_CONFIGURATION selecting the configuration.
AcceptedSetConfig ==
    DispatchedSetConfig /\ SetupReq.wValue # 0 /\ ~Did("stall")

\* C7: after an accepted SET_CONFIGURATION with the matching value, every
\* endpoint 1..7 with a non-zero size has the configured type and its own
\* address; STAT_TX = NAK with DTOG_TX = 0 if size_in # 0, else DISABLED;
\* STAT_RX = VALID with DTOG_RX = 0 if size_out # 0, else DISABLED.
C7_ConfiguredEndpoints ==
    AcceptedSetConfig =>
        \A i \in 1..7 :
            (endpoints[i].size_in # 0 \/ endpoints[i].size_out # 0) =>
                /\ EPnR[i] \cap USB_EP_T_FIELD = endpoints[i].type
                /\ EPnR[i] \cap USB_EPADDR_FIELD = Bits(i)
                /\ IF endpoints[i].size_in # 0
                   THEN StatTx(EPnR[i]) = USB_EP_TX_NAK /\ EPnR[i] \cap USB_EP_DTOG_TX = {}
                   ELSE StatTx(EPnR[i]) = USB_EP_TX_DIS
                /\ IF endpoints[i].size_out # 0
                   THEN StatRx(EPnR[i]) = USB_EP_RX_VALID /\ EPnR[i] \cap USB_EP_DTOG_RX = {}
                   ELSE StatRx(EPnR[i]) = USB_EP_RX_DIS

\* The configuration was selected again after both data endpoints had carried
\* traffic (a packet written to EP1, a packet received on EP2).
C7_Witness ==
    /\ AcceptedSetConfig
    /\ state = "CONFIGURED"
    /\ pma_tx[1].cnt # 0
    /\ Bits(endpoints[2].size_out) \subseteq pma_rx[2]


\* The event flags usbd_task would read from ISTR in the current state.
Pending ==
    ReadISTR(ISTR, EPnR)
    \cap (USB_ISTR_CTR \cup USB_ISTR_WKUP \cup USB_ISTR_SUSP \cup USB_ISTR_RESET \cup USB_ISTR_SOF)

\* The pending class of highest priority.
TopClass ==
    IF Pending \cap USB_ISTR_WKUP # {} THEN "WKUP"
    ELSE IF Pending \cap USB_ISTR_SUSP # {} THEN "SUSP"
    ELSE IF Pending \cap USB_ISTR_RESET # {} THEN "RESET"
    ELSE IF usbd_in_cb_defined /\ Pending \cap USB_ISTR_SOF # {} THEN "SOF"
    ELSE IF Pending \cap USB_ISTR_CTR # {} THEN "CTR"
    ELSE "NONE"

\* The transfer-complete flags of the endpoint registers.
CtrFlags(epr) == [i \in 0..7 |-> epr[i] \cap (USB_EP_CTR_RX \cup USB_EP_CTR_TX)]

NextCursor == IF current_ep + 1 >= 8 THEN 1 ELSE current_ep + 1

\* The step just taken did nothing a CTR event causes.
NoCtrEffect ==
    ~Did("CTR") /\ ~Did("setup") /\ ~Did("ctr_tx0") /\ ~Did("out_cb") /\ ~Did("stall")

\* C9 (as stated): one call of usbd_task processes at most one event class,
\* the pending one of highest priority (WKUP > SUSP > RESET > SOF > CTR), and
\* leaves the flags and effects of the lower classes untouched (WKUP also
\* clears SUSP); a call that processes SOF handles no CTR event.
C9_OneClassPerCallOriginal ==
    [][IsTask' =>
        /\ Handled' = IF TopClass = "NONE" THEN {} ELSE {TopClass}
        /\ TopClass = "WKUP" =>
            /\ ISTR' = ISTR \ (USB_ISTR_WKUP \cup USB_ISTR_SUSP)
            /\ EPnR' = EPnR /\ current_ep' = current_ep /\ state' = state /\ DADDR' = DADDR
        /\ TopClass = "SUSP" =>
            /\ ISTR' = ISTR \ USB_ISTR_SUSP
            /\ EPnR' = EPnR /\ current_ep' = current_ep /\ state' = state /\ DADDR' = DADDR
        /\ TopClass = "RESET" =>
            /\ ISTR' = ISTR \ USB_ISTR_RESET
            /\ current_ep' = current_ep
            /\ CtrFlags(EPnR') = CtrFlags(EPnR)
            /\ NoCtrEffect' /\ ~Did("in_cb")'
        /\ TopClass = "SOF" =>
            /\ ISTR' = ISTR \ USB_ISTR_SOF
            /\ current_ep' = NextCursor
            /\ CtrFlags(EPnR') = CtrFlags(EPnR)
            /\ NoCtrEffect'
        /\ TopClass = "CTR" =>
            /\ ISTR' = ISTR /\ current_ep' = current_ep
        /\ TopClass = "NONE" =>
            UNCHANGED <<state, set_address, address, DADDR, ISTR, CNTR, EPnR,
                        current_ep, pma_tx, pma_rx>>]_vars

\* C9 (amended): the class processed is the pending one of highest priority,
\* and WKUP, SUSP and RESET leave the SOF flag, the cursor and the callbacks of
\* the lower classes untouched (WKUP also clears SUSP), except that
\*  - RESET, zeroing the endpoint registers, clears every pending CTR flag;
\*  - a call that processes SOF and finds the polled endpoint not ready goes on
\*    to process a pending CTR event in the same call; only a SOF whose polled
\*    endpoint is ready (the IN callback is invoked) handles no CTR event.
C9_OneClassPerCall ==
    [][IsTask' =>
        /\ Handled' = IF TopClass = "NONE" THEN {}
                      ELSE IF /\ TopClass = "SOF"
                              /\ ~SofReady(M, current_ep)
                              /\ Pending \cap USB_ISTR_CTR # {}
                           THEN {"SOF", "CTR"}
                      ELSE {TopClass}
        /\ TopClass = "WKUP" =>
            /\ ISTR' = ISTR \ (USB_ISTR_WKUP \cup USB_ISTR_SUSP)
            /\ EPnR' = EPnR /\ current_ep' = current_ep /\ state' = state /\ DADDR' = DADDR
        /\ TopClass = "SUSP" =>
            /\ ISTR' = ISTR \ USB_ISTR_SUSP
            /\ EPnR' = EPnR /\ current_ep' = current_ep /\ state' = state /\ DADDR' = DADDR
        /\ TopClass = "RESET" =>
            /\ ISTR' = ISTR \ USB_ISTR_RESET
            /\ current_ep' = current_ep
            /\ CtrFlags(EPnR') = [i \in 0..7 |-> {}]
            /\ NoCtrEffect' /\ ~Did("in_cb")'
        /\ TopClass = "SOF" =>
            /\ ISTR' = ISTR \ USB_ISTR_SOF
            /\ current_ep' = NextCursor
            /\ SofReady(M, current_ep) =>
                /\ \E i \in 1..Len(last') : last'[i] = <<"in_cb", current_ep>>
                /\ CtrFlags(EPnR') = CtrFlags(EPnR)
                /\ NoCtrEffect'
            /\ ~SofReady(M, current_ep) =>
                /\ ~Did("in_cb")'
                /\ Did("CTR")' <=> Pending \cap USB_ISTR_CTR # {}
        /\ TopClass = "CTR" =>
            /\ ISTR' = ISTR /\ current_ep' = current_ep
        /\ TopClass = "NONE" =>
            UNCHANGED <<state, set_address, address, DADDR, ISTR, CNTR, EPnR,
                        current_ep, pma_tx, pma_rx>>]_vars

\* One call of usbd_task has processed SOF and then dispatched a SETUP.
C9_Witness ==
    /\ IsTask
    /\ Handled = {"SOF", "CTR"}
    /\ Did("setup")

\* C10: whenever usbd_task processes a SOF while at least one endpoint 1..7 is
\* ready (size_in # 0, STAT_TX = NAK, address field = index), the IN callback is
\* invoked during that call.
C10_SofPollsUntilReady ==
    [][(IsTask' /\ Did("SOF")' /\ \E k \in 1..7 : SofReady(M, k)) => Did("in_cb")']_vars


\* The descriptor a GET_DESCRIPTOR request selects: its buffer and its length.
DescOf(req) ==
    IF req.wValue \div 256 = USB_DESCR_TYPE_DEVICE
    THEN [buf |-> <<"device", 0>>, len |-> usbd_get_device_descriptor_cb[1].bLength]
    ELSE IF req.wValue \div 256 = USB_DESCR_TYPE_CONFIGURATION
    THEN [buf |-> <<"config", 0>>, len |-> usbd_get_config_descriptor_cb[1].wTotalLength]
    ELSE [buf |-> <<"string", req.wValue % 256>>,
          len |-> usbd_get_string_descriptor_cb(req.wIndex, req.wValue % 256)[1].bLength]

\* The number of packets that carry t bytes: max(1, ceil(t / 64)).
PacketsFor(t) == IF t = 0 THEN 1 ELSE (t + USBD_EP0_SIZE - 1) \div USBD_EP0_SIZE

\* The reply in progress answers an accepted GET_DESCRIPTOR.
ReplyIsDescriptor ==
    /\ reply.ok
    /\ reply.req.type = "STANDARD"
    /\ reply.req.bRequest = "GET_DESCRIPTOR"

\* C11: the packets armed on EP0 IN for a GET_DESCRIPTOR are, in order, the
\* 64-byte pieces of the first T = min(L, wLength) bytes of the descriptor
\* (the last piece may be shorter); max(1, ceil(T/64)) packets are armed, one
\* at the dispatch and one per later EP0 IN completion; then the continuation
\* is empty and a further EP0 IN completion arms nothing.
C11_DescriptorRoundTrip ==
    [][/\ ReplyIsDescriptor' =>
            LET d == DescOf(reply'.req)
                t == Min(d.len, reply'.req.wLength)
                n == Len(reply'.sent)
            IN  /\ n >= 1 /\ n <= PacketsFor(t)
                /\ \A k \in 1..n :
                    /\ reply'.sent[k].src = <<d.buf, USBD_EP0_SIZE * (k - 1)>>
                    /\ reply'.sent[k].cnt = Min(USBD_EP0_SIZE, t - USBD_EP0_SIZE * (k - 1))
                /\ IF n = PacketsFor(t)
                   THEN ctrl_in_buf' = NULL /\ ctrl_in_buflen' = 0
                   ELSE /\ ctrl_in_buf' = <<d.buf, USBD_EP0_SIZE * n>>
                        /\ ctrl_in_buflen' = t - USBD_EP0_SIZE * n
       /\ (ReplyIsDescriptor /\ Did("ctr_tx0")') =>
            IF ctrl_in_buf # NULL
            THEN Len(reply'.sent) = Len(reply.sent) + 1
                 /\ StatTx(EPnR'[0]) = USB_EP_TX_VALID
                 /\ pma_tx'[0] = reply'.sent[Len(reply'.sent)]
            ELSE pma_tx' = pma_tx /\ StatTx(EPnR'[0]) = StatTx(EPnR[0]) /\ reply' = reply]_vars

\* A three-packet reply (64, 64 and 22 bytes of the configuration descriptor)
\* has been armed completely.
C11_Witness ==
    /\ ReplyIsDescriptor
    /\ Len(reply.sent) > 2
    /\ ctrl_in_buf = NULL
    /\ Did("resume")

\* A zero-length packet written without a buffer.
ZeroLengthIn == [cnt |-> 0, src |-> NULL]

\* The last dispatch of a SETUP returned handled.
Handled0 == Did("setup") /\ ~Did("stall")

\* C12: a handled host-to-device request arms exactly one zero-length IN packet
\* on EP0 (count 0, STAT_TX VALID, continuation empty) and its transfer never
\* holds another packet; a handled device-to-host request arms no zero-length
\* status packet, at its dispatch or later in its transfer.
C12_StatusStage ==
    [][/\ (Handled0' /\ ep0_out'.dir = "H2D") =>
            /\ Did("status_in")'
            /\ pma_tx'[0] = ZeroLengthIn
            /\ StatTx(EPnR'[0]) = USB_EP_TX_VALID
            /\ ctrl_in_buf' = NULL /\ ctrl_in_buflen' = 0
       /\ (Handled0' /\ ep0_out'.dir = "D2H") => ~Did("status_in")'
       /\ (reply'.ok /\ reply'.req.dir = "H2D") => reply'.sent = <<ZeroLengthIn>>
       /\ (reply'.ok /\ reply'.req.dir = "D2H") =>
            \A k \in 1..Len(reply'.sent) : reply'.sent[k].src # NULL]_vars

C12_Witness ==
    /\ Handled0 /\ Did("vendor_cb") /\ ep0_out.dir = "H2D"
    /\ reply.sent = <<ZeroLengthIn>> /\ StatTx(EPnR[0]) = USB_EP_TX_VALID

\* The host's zero-length status-stage OUT of a handled device-to-host request
\* has completed on EP0, after the whole reply was sent, and usbd_task has not
\* seen it yet.
StatusOutPending ==
    /\ USB_EP_CTR_RX \subseteq EPnR[0]
    /\ EPnR[0] \cap USB_EP_SETUP = {}
    /\ FromBits(pma_rx[0] \cap USB_COUNT1_RX_0_COUNT1_RX_0) = 0
    /\ reply.ok /\ reply.req.dir = "D2H"
    /\ ctrl_in_buf = NULL /\ StatTx(EPnR[0]) = USB_EP_TX_NAK /\ EPnR[0] \cap USB_EP_CTR_TX = {}

\* C13: when usbd_task serves the completed zero-length status-stage OUT of a
\* device-to-host request, neither EP0 direction is set to STALL and the device
\* state, the pending-address latch and the control-IN continuation are unchanged.
C13_StatusOutNoAction ==
    [][(StatusOutPending /\ DidWith("CTR", 0)') =>
            /\ StatTx(EPnR'[0]) # USB_EP_TX_STALL
            /\ StatRx(EPnR'[0]) # USB_EP_RX_STALL
            /\ state' = state /\ set_address' = set_address
            /\ ctrl_in_buf' = ctrl_in_buf /\ ctrl_in_buflen' = ctrl_in_buflen]_vars

\* C14: a SETUP whose dispatch returns not handled leaves both EP0 directions
\* STALLed, arms no IN packet, and leaves the device state, the stored address,
\* the pending-address latch and EP1R..EP7R unchanged.
C14_ProtocolReject ==
    [][(Did("setup")' /\ Did("stall")') =>
            /\ StatTx(EPnR'[0]) = USB_EP_TX_STALL
            /\ StatRx(EPnR'[0]) = USB_EP_RX_STALL
            /\ pma_tx' = pma_tx /\ reply'.sent = <<>>
            /\ state' = state /\ address' = address /\ set_address' = set_address
            /\ DADDR' = DADDR
            /\ \A i \in 1..7 : EPnR'[i] = EPnR[i]]_vars

C14_Witness ==
    /\ Did("setup") /\ Did("stall") /\ ep0_out.bRequest = "SYNCH_FRAME"
    /\ state = "CONFIGURED" /\ EPnR[1] # {}
    /\ StatTx(EPnR[0]) = USB_EP_TX_STALL /\ StatRx(EPnR[0]) = USB_EP_RX_STALL

\* The last call of usbd_task handled a standard endpoint request b.
HandledEndpointReq(b) ==
    /\ Handled0
    /\ ep0_out.type = "STANDARD" /\ ep0_out.rcpt = "ENDPOINT" /\ ep0_out.bRequest = b

\* The two status bytes armed on EP0 IN, the first being v.
StatusReply(v) == [cnt |-> 2, src |-> <<<<"status", v>>, 0>>]

\* The data toggle and the status of the direction k of its endpoint register.
DtogOf(epr, k) ==
    epr[k[1]] \cap (IF k[2] = "IN" THEN USB_EP_DTOG_TX ELSE USB_EP_DTOG_RX)

StatOf(epr, k) ==
    epr[k[1]] \cap (IF k[2] = "IN" THEN USB_EPTX_STAT ELSE USB_EPRX_STAT)

\* C15: GET_STATUS on an endpoint direction whose last ENDPOINT_HALT request
\* was SET_FEATURE replies {1, 0}, and {0, 0} when it was CLEAR_FEATURE; a
\* handled CLEAR_FEATURE leaves the data toggle of the direction 0 and its
\* status NAK (IN) or VALID (OUT).
C15_HaltRoundTrip ==
    [][/\ HandledEndpointReq("GET_STATUS")' =>
            LET k == DirOf(ep0_out'.wIndex)
            IN  /\ halt[k] = "halted" => pma_tx'[0] = StatusReply(1)
                /\ halt[k] = "cleared" => pma_tx'[0] = StatusReply(0)
       /\ HandledEndpointReq("CLEAR_FEATURE")' =>
            LET k == DirOf(ep0_out'.wIndex)
            IN  /\ DtogOf(EPnR', k) = {}
                /\ StatOf(EPnR', k) = IF k[2] = "IN" THEN USB_EP_TX_NAK ELSE USB_EP_RX_VALID]_vars

\* The step clears the flag f (CTR_RX or CTR_TX) of endpoint i.
CtrCleared(i, f) == f \subseteq EPnR[i] /\ f \cap EPnR'[i] = {}

\* The step acknowledges the flag f of endpoint i: usbd_task serves the CTR
\* event of endpoint i, through the EP0 IN branch for the CTR_TX of EP0.
Acknowledged(i, f) ==
    IF i = 0 /\ f = USB_EP_CTR_TX THEN Did("ctr_tx0")'
    ELSE \E n \in 1..Len(last') : last'[n] = <<"CTR", i>>

\* The step writes EPnR &= ~USB_EPREG_MASK to endpoint i: reset handling, and
\* an accepted SET_CONFIGURATION for the endpoints 1..7 it touches.
Zeroed(i) ==
    \/ Did("RESET")'
    \/ /\ i >= 1
       /\ Handled0' /\ DispatchedSetConfig'
       /\ \/ ep0_out'.wValue = 0
          \/ endpoints[i].size_in # 0
          \/ endpoints[i].size_out # 0

\* C16, as stated: a CTR flag that is set before a call of usbd_task is clear
\* after it only if the call acknowledged that flag.
C16_TogglePreservationOriginal ==
    [][\A i \in 0..7 : \A f \in {USB_EP_CTR_RX, USB_EP_CTR_TX} :
            (IsTask' /\ CtrCleared(i, f)) => Acknowledged(i, f)]_vars

\* C16: a CTR flag that is set before a call of usbd_task is clear after it
\* only if the call acknowledged that flag or zeroed the register (reset
\* handling, accepted SET_CONFIGURATION).
C16_TogglePreservation ==
    [][\A i \in 0..7 : \A f \in {USB_EP_CTR_RX, USB_EP_CTR_TX} :
            (IsTask' /\ CtrCleared(i, f)) => (Acknowledged(i, f) \/ Zeroed(i))]_vars

\* SET_FEATURE has halted EP2 OUT and the SETUP was dispatched with the previous
\* EP0 IN completion still pending: both pending flags are still set.
C16_Witness ==
    /\ HandledEndpointReq("SET_FEATURE") /\ ep0_out.wIndex = 2
    /\ USB_EP_CTR_RX \subseteq EPnR[2]
    /\ USB_EP_CTR_TX \subseteq EPnR[0]

\* The step just taken is the application's call name(ept, ...).
AppCalled(name, ept) == Len(last) > 0 /\ last[1] = <<name, ept>>

\* The value the call just made returned (false is 0, true is 1).
Returned(v) == DidWith("rv", v)

\* The IN / OUT direction of endpoint number ept is disabled or does not exist.
DisabledIn(ept)  == ept >= 8 \/ endpoints[ept].size_in = 0
DisabledOut(ept) == ept >= 8 \/ endpoints[ept].size_out = 0

\* C17: usbd_in on an endpoint whose IN size is 0 or whose number is >= 8
\* returns false, usbd_out on an endpoint whose OUT size is 0 or whose number
\* is >= 8 returns 0, and these calls change neither the PMA nor any EPnR.
C17_DisabledDirectionRejected ==
    [][\A ept \in AppEpts :
        /\ (AppCalled("usbd_in", ept)' /\ DisabledIn(ept)) =>
                Returned(0)' /\ pma_tx' = pma_tx /\ pma_rx' = pma_rx /\ EPnR' = EPnR
        /\ (AppCalled("usbd_out", ept)' /\ DisabledOut(ept)) =>
                Returned(0)' /\ pma_tx' = pma_tx /\ pma_rx' = pma_rx /\ EPnR' = EPnR]_vars

\* The byte count in the OUT descriptor of endpoint ept.
RxCountOf(rx, ept) == FromBits(rx[ept] \cap USB_COUNT1_RX_0_COUNT1_RX_0)

SizeOfDir(d) ==
    IF d[1] = 0 THEN USBD_EP0_SIZE
    ELSE IF d[2] = "IN" THEN config[d[1]].size_in ELSE config[d[1]].size_out

\* The address recorded for it in the buffer-descriptor table.
AddrOfDir(d) == IF d[2] = "IN" THEN btable[d[1]].in_addr ELSE btable[d[1]].out_addr

EnabledDirs == {d \in (0..7) \X {"IN", "OUT"} : SizeOfDir(d) # 0}

\* C19: after usbd_init the ranges [addr, addr + size) of the enabled endpoint
\* directions are pairwise disjoint and lie within [64, PMA_SIZE), for every
\* size configuration the build-time check accepts.
C19_PmaDisjoint ==
    Did("usbd_init") =>
        /\ \A d \in EnabledDirs :
                AddrOfDir(d) >= 64 /\ AddrOfDir(d) + SizeOfDir(d) <= PMA_SIZE
        /\ \A d, e \in EnabledDirs :
                d # e => \/ AddrOfDir(d) + SizeOfDir(d) <= AddrOfDir(e)
                         \/ AddrOfDir(e) + SizeOfDir(e) <= AddrOfDir(d)

\* The value the SET_CONFIGURATION loop leaves in the register of a configured
\* endpoint i.
ConfiguredValue(i) ==
    endpoints[i].type \cup Bits(i)
    \cup (IF endpoints[i].size_in # 0 THEN USB_EP_TX_NAK ELSE {})
    \cup (IF endpoints[i].size_out # 0 THEN USB_EP_RX_VALID ELSE {})

\* The endpoints the SET_CONFIGURATION loop does not skip.
ConfiguredEps == {i \in 1..7 : endpoints[i].size_in # 0 \/ endpoints[i].size_out # 0}

\* The device is Configured and EP1R..EP7R are as an accepted SET_CONFIGURATION
\* left them: no traffic has changed them since.
AsConfigured ==
    /\ state = "CONFIGURED"
    /\ \A i \in ConfiguredEps : EPnR[i] = ConfiguredValue(i)

\* C20: an accepted SET_CONFIGURATION with the matching value leaves the device
\* Configured and every configured endpoint register with one fixed value, the
\* other registers of EP1..EP7 as they were; processed on a device as a first
\* such request left it, it leaves EP1R..EP7R exactly as they were.
C20_SetConfigurationIdempotent ==
    [][AcceptedSetConfig' =>
        /\ state' = "CONFIGURED"
        /\ \A i \in 1..7 :
                EPnR'[i] = IF i \in ConfiguredEps THEN ConfiguredValue(i) ELSE EPnR[i]
        /\ AsConfigured => \A i \in 1..7 : EPnR'[i] = EPnR[i]]_vars

\* The same SET_CONFIGURATION was handled twice in succession.
C20_Witness ==
    /\ AcceptedSetConfig /\ reply.again
    /\ AsConfigured

\* The direction of the data stage each standard request is defined with.
CanonicalDir(b) ==
    IF b \in {"GET_STATUS", "GET_DESCRIPTOR", "GET_CONFIGURATION", "GET_INTERFACE"} THEN "D2H"
    ELSE IF b \in {"CLEAR_FEATURE", "SET_FEATURE", "SET_ADDRESS", "SET_CONFIGURATION", "SET_INTERFACE"}
         THEN "H2D"
    ELSE "any"

\* The request is one of these standard requests with the other direction bit.
WrongDirection(req) ==
    /\ req.type = "STANDARD"
    /\ CanonicalDir(req.bRequest) # "any"
    /\ req.dir # CanonicalDir(req.bRequest)

\* Both directions of EP0 are STALLed.
Stalled0(epr) ==
    StatTx(epr[0]) = USB_EP_TX_STALL /\ StatRx(epr[0]) = USB_EP_RX_STALL

\* C21: a dispatched standard request whose direction bit disagrees with the
\* canonical direction of the request is rejected in every device state: both
\* directions of EP0 are STALLed, and the device state, the address latch, the
\* continuation and EP1R..EP7R are unchanged.
C21_WrongDirectionRejected ==
    [][(Did("setup")' /\ WrongDirection(SetupReq')) =>
        /\ Did("stall")'
        /\ Stalled0(EPnR')
        /\ state' = state
        /\ set_address' = set_address /\ address' = address
        /\ ctrl_in_buf' = ctrl_in_buf /\ ctrl_in_buflen' = ctrl_in_buflen
        /\ \A i \in 1..7 : EPnR'[i] = EPnR[i]]_vars

\* A SET_CONFIGURATION with the matching value sent device-to-host was
\* rejected in Address while a descriptor continuation was pending.
C21_Witness ==
    /\ Did("setup") /\ WrongDirection(SetupReq) /\ Did("stall")
    /\ SetupReq.bRequest = "SET_CONFIGURATION" /\ SetupReq.wValue = 1
    /\ state = "ADDRESS"
    /\ ctrl_in_buf # NULL

\* C22: on a configured device, usbd_out called with autoenable = false on an
\* enabled OUT endpoint that holds a received packet (STAT_RX = NAK) does not
\* re-arm it (STAT_RX is not made VALID); called with autoenable = true it
\* leaves the endpoint armed (STAT_RX = VALID).
C22_ReceiveFlowControl ==
    [][\A ept \in 1..7 :
        (AppCalled("usbd_out", ept)' /\ ~DisabledOut(ept) /\ state = "CONFIGURED") =>
            /\ (\E n \in 1..Len(last') : last'[n] = <<"autoenable", 1>>)
                    => StatRx(EPnR'[ept]) = USB_EP_RX_VALID
            /\ ((\E n \in 1..Len(last') : last'[n] = <<"autoenable", 0>>)
                    /\ StatRx(EPnR[ept]) = USB_EP_RX_NAK)
                    => StatRx(EPnR'[ept]) # USB_EP_RX_VALID]_vars

\* C23: whenever usbd_task has just handled a RESET event, EP1R..EP7R are zero
\* in all fields: STAT_TX and STAT_RX DISABLED, both data toggles 0, type 0,
\* address 0 and both CTR flags clear, whatever they held before.
C23_ResetZeroesEndpoints ==
    Did("RESET") => \A i \in 1..7 : EPnR[i] = {}

\* A RESET handled on a device whose bulk OUT endpoint had received a packet.
C23_Witness ==
    Did("RESET") /\ RxCountOf(pma_rx, 2) = endpoints[2].size_out

\* The number of invocations of the IN callback in the step just taken.
InCbCalls == Cardinality({n \in 1..Len(last) : last[n][1] = "in_cb"})

C25_RoundRobinFair ==
    [][/\ current_ep \in 1..7 /\ current_ep' \in 1..7
       /\ current_ep' = IF Did("SOF")' THEN (IF current_ep = 7 THEN 1 ELSE current_ep + 1)
                        ELSE current_ep
       /\ \A k \in 1..7 : waiting'[k] <= 6]_vars

\* EP1 has stayed ready through six processed SOF events, which polled
\* EP2..EP7: the next one polls EP1.
C25_Witness ==
    /\ Did("SOF")
    /\ waiting[1] = 6
    /\ current_ep = 1
    /\ ReadyIn(EPnR, 1)

\* C26: usbd_in on an enabled IN endpoint with len <= size_in returns true,
\* leaves the len bytes of buf in the endpoint's IN slot with the IN count
\* len, and makes STAT_TX = VALID whatever it was before, leaving STAT_RX,
\* DTOG_TX, DTOG_RX, the type and the address field of the register unchanged.
C26_UsbdIn ==
    [][\A ept \in 1..7 :
        (AppCalled("usbd_in", ept)' /\ ~DisabledIn(ept)) =>
            \A n \in 1..Len(last') :
                (last'[n][1] = "buflen" /\ last'[n][2] <= endpoints[ept].size_in) =>
                    LET len  == last'[n][2]
                        kept == USB_EPRX_STAT \cup USB_EP_DTOG_TX \cup USB_EP_DTOG_RX
                                \cup USB_EP_T_FIELD \cup USB_EPADDR_FIELD
                    IN  /\ Returned(1)'
                        /\ pma_tx'[ept] = [cnt |-> len, src |-> <<<<"app", 0>>, 0>>]
                        /\ StatTx(EPnR'[ept]) = USB_EP_TX_VALID
                        /\ EPnR'[ept] \cap kept = EPnR[ept] \cap kept]_vars

\* A 7-byte packet written to EP1 while the endpoint was halted.
C26_Witness ==
    /\ AppCalled("usbd_in", 1) /\ DidWith("buflen", 7) /\ Returned(1)
    /\ halt[<<1, "IN">>] = "halted"
    /\ state = "CONFIGURED"
    /\ pma_tx[1].cnt = 7

\* The step just taken dispatched a standard SET_FEATURE or CLEAR_FEATURE.
DispatchedFeature ==
    /\ Did("setup")
    /\ SetupReq.type = "STANDARD"
    /\ SetupReq.bRequest \in {"SET_FEATURE", "CLEAR_FEATURE"}

\* The request is an ENDPOINT_HALT feature request that, received in device
\* state st, addresses an enabled direction of a Bulk or Interrupt endpoint.
HaltEligible(req, st) ==
    /\ st = "CONFIGURED"
    /\ req.dir = "H2D" /\ req.rcpt = "ENDPOINT" /\ req.wValue = USB_FEAT_ENDPOINT_HALT
    /\ LET k == DirOf(req.wIndex)
       IN  /\ k[1] # 0
           /\ endpoints[k[1]].type \in {USB_EP_BULK, USB_EP_INTERRUPT}
           /\ (IF k[2] = "IN" THEN endpoints[k[1]].size_in ELSE endpoints[k[1]].size_out) # 0

\* The other direction of the endpoint of k.
Opposite(k) == <<k[1], IF k[2] = "IN" THEN "OUT" ELSE "IN">>

AddressHookCalls == {n \in 1..Len(last) : last[n][1] = "set_address_hook_cb"}

\* C28: a SET_ADDRESS with value 0 dispatched in Default is acknowledged (the
\* zero-length status IN is armed, no STALL) without setting the pending
\* flag, without invoking the address hook and without changing DADDR or the
\* state, and the completion of its status IN changes neither DADDR nor the
\* state; a SET_ADDRESS dispatched in Default with a value other than 0 or in
\* Address latches the 7-bit value and invokes the address hook exactly once,
\* with that value, in the call that processes the SETUP, which does not
\* write DADDR.
C28_SetAddressLatching ==
    [][/\ (DispatchedSetAddress' /\ state = "DEFAULT" /\ SetupReq'.wValue = 0) =>
            /\ ~Did("stall")'
            /\ pma_tx'[0] = ZeroLengthIn /\ StatTx(EPnR'[0]) = USB_EP_TX_VALID
            /\ set_address' = set_address
            /\ AddressHookCalls' = {}
            /\ DADDR' = DADDR /\ state' = state
       /\ (/\ Did("ctr_tx0")'
           /\ state = "DEFAULT"
           /\ reply.ok /\ reply.req.type = "STANDARD" /\ reply.req.bRequest = "SET_ADDRESS"
           /\ reply.req.dir = "H2D" /\ reply.req.rcpt = "DEVICE" /\ reply.req.wValue = 0) =>
            DADDR' = DADDR /\ state' = state
       /\ (DispatchedSetAddress' /\ SetAddressLatches(state, SetupReq'.wValue)) =>
            /\ set_address' /\ address' = Addr7(SetupReq'.wValue)
            /\ Cardinality(AddressHookCalls') = 1
            /\ \E n \in 1..Len(last') :
                    last'[n] = <<"set_address_hook_cb", Addr7(SetupReq'.wValue)>>
            /\ DADDR' = DADDR]_vars

\* C29: a GET_STATUS dispatched in Default or Address, whatever its recipient
\* (Device, Interface, Endpoint) and also for an interface that exists, arms
\* no data packet and STALLs EP0; in Configured a GET_STATUS for an interface
\* that exists replies two zero bytes.
C29_GetStatusOnlyConfigured ==
    [][(DispatchedStd("GET_STATUS")'
            /\ SetupReq'.rcpt \in {"DEVICE", "INTERFACE", "ENDPOINT"}) =>
        /\ state \in {"DEFAULT", "ADDRESS"} =>
            /\ Did("stall")'
            /\ Stalled0(EPnR')
            /\ pma_tx'[0] = pma_tx[0]
        /\ (/\ state = "CONFIGURED"
            /\ SetupReq'.dir = "D2H" /\ SetupReq'.rcpt = "INTERFACE"
            /\ usbd_get_interface_descriptor_cb(SetupReq'.wIndex) # NULL
            /\ SetupReq'.wLength >= 2) =>
            /\ ~Did("stall")'
            /\ pma_tx'[0] = StatusReply(0)
            /\ StatTx(EPnR'[0]) = USB_EP_TX_VALID]_vars

\* GET_STATUS for the existing interface 0 rejected in Address.
C29_Witness ==
    /\ DispatchedStd("GET_STATUS") /\ Did("stall")
    /\ SetupReq.rcpt = "INTERFACE" /\ SetupReq.wIndex = 0
    /\ state = "ADDRESS"
    /\ Stalled0(EPnR)

\* C30: a call of usbd_task that finds an EP0 receive completion without the
\* SETUP flag (CTR_RX set, SETUP clear: an OUT data packet) does not dispatch
\* the packet as a control request, whatever its length, and changes neither
\* the device state, nor the address latch, nor EP1R..EP7R.
C30_OnlySetupDispatched ==
    [][(/\ IsTask' /\ Did("CTR")'
        /\ ~Did("RESET")'
        /\ USB_EP_CTR_RX \subseteq EPnR[0]
        /\ EPnR[0] \cap USB_EP_SETUP = {}) =>
            /\ ~Did("setup")'
            /\ state' = state
            /\ set_address' = set_address /\ address' = address
            /\ \A i \in 1..7 : EPnR'[i] = EPnR[i]]_vars

\* The sizes the build configures, EP0 included, as the size macros give them.
ConfiguredSize(i) ==
    IF i = 0 THEN [size_in |-> USBD_EP0_SIZE, size_out |-> USBD_EP0_SIZE] ELSE config[i]

\* The running watermark before the slots of endpoint i: it starts right after
\* the descriptor table and advances by each configured IN and OUT size.
RECURSIVE Watermark(_)
Watermark(i) ==
    IF i = 0 THEN 64
    ELSE Watermark(i - 1) + ConfiguredSize(i - 1).size_in + ConfiguredSize(i - 1).size_out

\* C31: after usbd_init, for every build whose sizes the build-time check and
\* the RX-encodability rule allow (OUT sizes of 256 bytes and more included),
\* the descriptor of each endpoint i = 0..7 holds IN addr = the running
\* watermark with IN count 0 and OUT addr = watermark + size_in, the
\* watermark starting at 64 and advancing by exactly the configured IN size
\* and then the configured OUT size of each endpoint.
C31_PmaLayout ==
    (Did("usbd_init") /\ \A i \in 1..7 : RxEncodable(config[i].size_out)) =>
        \A i \in 0..7 :
            /\ btable[i].in_addr = Watermark(i)
            /\ pma_tx[i].cnt = 0
            /\ btable[i].out_addr = Watermark(i) + ConfiguredSize(i).size_in

\* The value n in the block-count field (bits 10..14) of an OUT count word.
NumBlock(n) == {b + 10 : b \in Bits(n)}

\* C32: after usbd_init the OUT descriptor count of every endpoint is
\* (size_out / 2) << 10 when size_out is even and at most 62 (0 for size 0),
\* and BL_SIZE | ((size_out / 32) << 10) when size_out is a multiple of 32
\* above 62, so that its received-byte-count field (the low 10 bits, what
\* usbd_out returns before anything is received) is 0.
C32_RxCountEncoding ==
    Did("usbd_init") =>
        \A i \in 0..7 :
            LET s == ConfiguredSize(i).size_out
            IN  RxEncodable(s) =>
                    /\ pma_rx[i] = IF s <= 62 THEN NumBlock(s \div 2)
                                   ELSE USB_COUNT0_RX_BLSIZE \cup NumBlock(s \div 32)
                    /\ RxCountOf(pma_rx, i) = 0

\* C33: when the peripheral sets CTR_RX or CTR_TX of an endpoint between the
\* read and the write of a read-modify-write of its register by the core, the
\* flag is still set after the write.
C33_NoCompletionLost ==
    [][(pc # NULL /\ pc.at = "ack" /\ pc' # pc) =>
            \A f \in USB_EP_CTR_RX \cup USB_EP_CTR_TX :
                (f \notin pc.rd /\ f \in EPnR[0]) => f \in EPnR'[0]]_vars

\* C34: every SETUP received on EP0 is dispatched to handle_ctrl_setup exactly
\* once: a step that clears the CTR_RX flag of a pending SETUP (a bus reset
\* apart) dispatches it, and a step dispatches a SETUP only when its
\* reception is pending.
C34_SetupDispatchedOnce ==
    [][/\ (/\ USB_EP_CTR_RX \cup USB_EP_SETUP \subseteq EPnR[0]
           /\ EPnR'[0] \cap USB_EP_CTR_RX = {}
           /\ ~Did("RESET")') => Did("setup")'
       /\ Did("setup")' => USB_EP_CTR_RX \subseteq EPnR[0]]_vars

\* C35: the EP0 IN buffer is not written while an armed EP0 IN packet is
\* untransmitted: a step of the core that writes it (a continuation fragment
\* of usbd_control_in_resume, or the packet of a dispatched request) finds
\* STAT_TX of EP0 other than VALID.
C35_NoOverwriteWhileArmed ==
    [][(\/ pma_tx'[0] # pma_tx[0]
        \/ Did("resume")'
        \/ (Did("setup")' /\ ~Did("stall")' /\ StatTx(EPnR'[0]) = USB_EP_TX_VALID))
            => StatTx(EPnR[0]) # USB_EP_TX_VALID]_vars

\* C36: in every reachable state the device state is Default if and only if
\* the address field of USB->DADDR is 0.
C36_DefaultIffAddressZero ==
    (state = "DEFAULT") <=> (DADDR \cap USB_DADDR_ADD = {})

\* C37: whenever the device state is Default or Address, every EPnR of
\* endpoints 1..7 has STAT_TX = STAT_RX = DISABLED, and a call of usbd_task
\* made outside Configured state does not invoke the IN callback.
C37_EnabledOnlyConfigured ==
    state # "CONFIGURED" =>
        /\ \A i \in 1..7 : StatTx(EPnR[i]) = USB_EP_TX_DIS /\ StatRx(EPnR[i]) = USB_EP_RX_DIS
        /\ ~Did("in_cb")

\* C38: an endpoint direction halted by SET_FEATURE(ENDPOINT_HALT) has its
\* status STALL until CLEAR_FEATURE(ENDPOINT_HALT), SET_CONFIGURATION or a
\* bus reset; calls of usbd_in and usbd_out by the application's callbacks do
\* not change that.
C38_HaltedStaysHalted ==
    \A k \in EndpointDirs :
        (halt[k] = "halted" /\ ISTR \cap USB_ISTR_RESET = {}) =>
            StatOf(EPnR, k) = (IF k[2] = "IN" THEN USB_EP_TX_STALL ELSE USB_EP_RX_STALL)

\* C39: usbd_in with len <= size_in stores only bytes of the endpoint's own IN
\* slot [addr, addr + size_in) and writes only that endpoint's IN count: the
\* addr fields of the descriptor table, the other IN counts and the OUT
\* counts are unchanged, for every len, odd ones included, and every
\* configured size_in.
C39_UsbdInFrame ==
    [][\A ept \in 1..7 :
        AppCalled("usbd_in", ept)' =>
            /\ \A n \in 1..Len(last') :
                    /\ last'[n][1] = "copy" => last'[n][2] >= btable[ept].in_addr
                    /\ last'[n][1] = "copy_end" =>
                            last'[n][2] <= btable[ept].in_addr + config[ept].size_in
            /\ btable' = btable
            /\ pma_rx' = pma_rx
            /\ \A i \in 0..7 : i # ept => pma_tx'[i] = pma_tx[i]]_vars


\* C40: no bus event is lost while another is acknowledged: a RESET, SUSP,
\* WKUP or SOF flag the peripheral sets between the read and the write of
\* usbd_task's clearing of a different flag is still pending after the write;
\* the only flag cleared without being handled is SUSP when WKUP is handled.
C40_NoEventLost ==
    [][(pc # NULL /\ pc.at = "istr" /\ pc' = NULL) =>
            \A f \in (ISTR \cap IstrCleared) \ pc.rd :
                \/ f \in ISTR'
                \/ f \in USB_ISTR_SUSP /\ Did("WKUP")']_vars

====
